---- MODULE Spec2Model ----
(***************************************************************************)
(* ZkStorage: the chunked Merkle commitment (lib/merkle) and the Seal      *)
(* envelope codec with its policy gate (lib/seal).                         *)
(*                                                                         *)
(* Byte arrays on the commitment side are run-length encoded, a sequence   *)
(* of runs [b |-> byte, n |-> count] in canonical form (no empty run, no   *)
(* two adjacent runs of the same byte), so that two arrays are equal       *)
(* exactly when their encodings are and CHUNK_SIZE keeps its value.        *)
(*                                                                         *)
(* SHA-256 is collision-free here: a digest is the term [sha256 |-> m] of  *)
(* its message m.  A message is [raw |-> bytes, hex |-> digests], the raw  *)
(* bytes followed by the 64-character hex text of each digest.             *)
(***************************************************************************)
EXTENDS Integers, Sequences, FiniteSets, TLC

VARIABLES
    entry,      \* the function the caller builds the tree with
    data,       \* argument of createCommitment
    chunks,     \* chunk list handed to createMerkleTree
    tree,       \* MerkleTree returned by it
    treeRes,    \* "none" | "ok" | "EmptyChunks"
    reqIndex,   \* leafIndex of the last generateProof call
    proof,      \* MerkleProof returned by it
    proofRes,   \* "none" | "ok" | "OutOfBounds"
    verifyRes,  \* "none" | "true" | "false": last verifyProof(tree.root, proof)
    metadata,   \* argument of createCommitmentWithMetadata
    committed,  \* what it returned
    committedRes,\* "none" | "ok"
    again,      \* what a second call with the same arguments returned
    claimed,    \* a proof the caller built and handed to verifyProof
    claimedRes, \* "none" | "true" | "false": verifyProof(tree.root, claimed)
    longer      \* what createMerkleTree returned for chunks and its last chunk once more

merkleVars ==
    <<entry, data, chunks, tree, treeRes, reqIndex, proof, proofRes, verifyRes,
      metadata, committed, committedRes, again, claimed, claimedRes, longer>>

VARIABLES
    now,         \* Date.now(), counted from the start of the run
    policy,      \* the SealPolicy createPolicy returned
    policyRes,   \* "none" | "ok"
    plaintext,   \* argument of encryptWithSeal
    envelope,    \* envelope returned by encryptWithSeal, or built by the caller
    envRes,      \* "none" | "encrypted" | "constructed"
    wire,        \* bytes returned by serializeEnvelope, as stored
    wireRes,     \* "none" | "serialized" | "tampered" | "relengthed"
    decoded,     \* envelope returned by deserializeEnvelope(wire)
    decodedRes,  \* "none" | "ok" | "SyntaxError"
    requester,   \* requesterAddress of the decryptWithSeal call made at this instant
    decryptRes,  \* "none" | "ok" | "PolicyExpired" | "AccessDenied" | "DataError" | "OperationError"
    decrypted,   \* bytes it returned
    draws,       \* values the random source of crypto has handed out so far
    issued,      \* the (key, nonce) pair of every envelope encryptWithSeal returned
    expiredAt    \* when decryptWithSeal first refused this policy as expired, or -1

sealVars ==
    <<now, policy, policyRes, plaintext, envelope, envRes, wire, wireRes,
      decoded, decodedRes, requester, decryptRes, decrypted,
      draws, issued, expiredAt>>

\* The Move package (storage_receipt, proof_verifier, compliance_ledger)
VARIABLES
    clockMs,     \* timestamp_ms of the Sui clock, counted from the first transaction
    receipt,     \* the StorageReceipt object
    receiptRes,  \* "none" | "owned" | "deleted"
    registry,    \* the shared ProofRegistry
    accepted,    \* proof hashes of the verify calls that succeeded so far
    tx,          \* the last transaction: its call, what it saw and how it ended
    ledger,      \* the shared ComplianceLedger
    issuedRecords \* the ComplianceRecord objects made so far, in order

chainVars == <<clockMs, receipt, receiptRes, registry, accepted, tx>>

ledgerVars == <<ledger, issuedRecords>>

\* lib/zk-prover
VARIABLES
    bundle,      \* the ProofBundle handed to verifyProof
    fetched,     \* how the fetch of the verification key ended
    snark,       \* how snarkjs.groth16.verify ended
    zkRes        \* "none" | "true" | "false" | "TypeError": how verifyProof ended

proverVars == <<bundle, fetched, snark, zkRes>>

vars == <<merkleVars, sealVars, chainVars, ledgerVars, proverVars>>

-----------------------------------------------------------------------------
(* Bounds of the inputs *)

MaxRuns == 2        \* runs of equal bytes in a createCommitment input
MaxFull == 2        \* a run is at most MaxFull chunks (+1 byte) long
MaxLeaves == 3      \* chunks in a direct createMerkleTree call

-----------------------------------------------------------------------------
(* Byte arrays *)

CHUNK_SIZE == 16 * 1024

Min(a, b) == IF a < b THEN a ELSE b
Max(a, b) == IF a < b THEN b ELSE a

RECURSIVE ByteLength(_)
ByteLength(d) == IF d = <<>> THEN 0 ELSE Head(d).n + ByteLength(Tail(d))

\* Uint8Array.prototype.slice(start, end) for 0 <= start <= end <= length;
\* off is the number of bytes before run k.
RECURSIVE SliceRuns(_, _, _, _, _)
SliceRuns(d, k, off, start, end) ==
    IF k > Len(d) THEN <<>>
    ELSE LET lo == Max(start, off)
             hi == Min(end, off + d[k].n)
         IN  (IF lo < hi THEN <<[b |-> d[k].b, n |-> hi - lo]>> ELSE <<>>)
                 \o SliceRuns(d, k + 1, off + d[k].n, start, end)

Slice(d, start, end) == SliceRuns(d, 1, 0, start, end)

\* a followed by b, in canonical form
Concat(a, b) ==
    IF a = <<>> THEN b
    ELSE IF b = <<>> THEN a
    ELSE IF a[Len(a)].b = b[1].b
         THEN SubSeq(a, 1, Len(a) - 1)
                  \o <<[b |-> b[1].b, n |-> a[Len(a)].n + b[1].n]>>
                  \o Tail(b)
         ELSE a \o b

RECURSIVE ConcatAll(_)
ConcatAll(list) == IF list = <<>> THEN <<>> ELSE Concat(Head(list), ConcatAll(Tail(list)))

-----------------------------------------------------------------------------
(* Hashing *)

RawMessage(bytes) == [raw |-> bytes, hex |-> <<>>]

\* new TextEncoder().encode(a + b): the hex text of a, then that of b
TextEncode(strs) == [raw |-> <<>>, hex |-> strs]

sha256(message) == [sha256 |-> message]

Sign(x, y) == IF x < y THEN -1 ELSE IF x > y THEN 1 ELSE 0

RECURSIVE CmpRuns(_, _, _)
CmpRuns(a, b, k) ==
    IF k > Len(a) /\ k > Len(b) THEN 0
    ELSE IF k > Len(a) THEN -1
    ELSE IF k > Len(b) THEN 1
    ELSE IF a[k].b # b[k].b THEN Sign(a[k].b, b[k].b)
    ELSE IF a[k].n # b[k].n THEN Sign(a[k].n, b[k].n)
    ELSE CmpRuns(a, b, k + 1)

\* The order of two digests as strings.  The hex text of a digest is not
\* modelled; the comparison is a total order on the digest terms.
RECURSIVE CmpDigest(_, _)
RECURSIVE CmpDigests(_, _, _)
CmpDigest(x, y) ==
    LET c == CmpRuns(x.sha256.raw, y.sha256.raw, 1)
    IN  IF c # 0 THEN c ELSE CmpDigests(x.sha256.hex, y.sha256.hex, 1)
CmpDigests(a, b, k) ==
    IF k > Len(a) /\ k > Len(b) THEN 0
    ELSE IF k > Len(a) THEN -1
    ELSE IF k > Len(b) THEN 1
    ELSE LET c == CmpDigest(a[k], b[k])
         IN  IF c # 0 THEN c ELSE CmpDigests(a, b, k + 1)

\* mutant: no string is below another
StringLessNever(left, right) == FALSE

StringLess(left, right) == CmpDigest(left, right) < 0

\* mutant: the operands are joined as given
hashPairUnsorted(left, right) == sha256(TextEncode(<<left, right>>))

hashPair(left, right) ==
    LET combined == IF StringLess(left, right) THEN <<left, right>> ELSE <<right, left>>
    IN  sha256(TextEncode(combined))

-----------------------------------------------------------------------------
(* createMerkleTree *)

NoDigest == sha256(RawMessage(<<>>))
NoTree == [root |-> NoDigest, leaves |-> <<>>, depth |-> 0, nodes |-> <<>>]
NoProof == [leaf |-> NoDigest, leafIndex |-> 0, siblings |-> <<>>, pathIndices |-> <<>>]

\* a & b on non-negative integers
RECURSIVE BitAnd(_, _)
BitAnd(a, b) ==
    IF a = 0 \/ b = 0 THEN 0
    ELSE (a % 2) * (b % 2) + 2 * BitAnd(a \div 2, b \div 2)

\* mutant: the padding repeats the first leaf
RECURSIVE PadLeavesWithFirst(_)
PadLeavesWithFirst(padded) ==
    IF BitAnd(Len(padded), Len(padded) - 1) # 0
    THEN PadLeavesWithFirst(Append(padded, padded[1]))
    ELSE padded

\* mutant: the padding is a digest of its own, the one of no bytes
RECURSIVE PadLeavesWithSentinel(_)
PadLeavesWithSentinel(padded) ==
    IF BitAnd(Len(padded), Len(padded) - 1) # 0
    THEN PadLeavesWithSentinel(Append(padded, NoDigest))
    ELSE padded

RECURSIVE PadLeaves(_)
PadLeaves(padded) ==
    IF BitAnd(Len(padded), Len(padded) - 1) # 0
    THEN PadLeaves(Append(padded, padded[Len(padded)]))
    ELSE padded

\* mutant: a node is paired with itself
NextLevelSelfPair(currentLevel) ==
    [i \in 1..((Len(currentLevel) + 1) \div 2) |->
        hashPair(currentLevel[2 * i - 1], currentLevel[2 * i - 1])]

NextLevel(currentLevel) ==
    [i \in 1..((Len(currentLevel) + 1) \div 2) |->
        hashPair(currentLevel[2 * i - 1], currentLevel[2 * i])]

RECURSIVE BuildLevels(_)
BuildLevels(currentLevel) ==
    IF Len(currentLevel) > 1
    THEN <<currentLevel>> \o BuildLevels(NextLevel(currentLevel))
    ELSE <<currentLevel>>

\* Promise.all(promises): order[k] is the index of the promise that settles
\* k-th, values[i] what promise i resolves to.

\* mutant: the results are collected in the order the promises settle
PromiseAllInSettleOrder(values, order) == [k \in 1..Len(order) |-> values[order[k]]]

\* each result is stored at the index of its promise
PromiseAll(values, order) ==
    [i \in 1..Len(values) |->
        LET k == CHOOSE j \in 1..Len(order) : order[j] = i
        IN  values[order[k]]]

\* mutant: a single chunk is rejected as well
createMerkleTreeOffByOne(chunkList, order) ==
    IF Len(chunkList) <= 1
    THEN [res |-> "EmptyChunks", tree |-> NoTree]
    ELSE LET leaves == PromiseAll([i \in 1..Len(chunkList) |-> sha256(chunkList[i])], order)
             nodes == BuildLevels(PadLeaves(leaves))
         IN  [res |-> "ok",
              tree |-> [root |-> nodes[Len(nodes)][1],
                        leaves |-> leaves,
                        depth |-> Len(nodes) - 1,
                        nodes |-> nodes]]

\* mutant: the padded leaves are returned as the leaves
createMerkleTreePaddedLeaves(chunkList, order) ==
    IF Len(chunkList) = 0
    THEN [res |-> "EmptyChunks", tree |-> NoTree]
    ELSE LET leaves == PromiseAll([i \in 1..Len(chunkList) |-> sha256(chunkList[i])], order)
             nodes == BuildLevels(PadLeaves(leaves))
         IN  [res |-> "ok",
              tree |-> [root |-> nodes[Len(nodes)][1],
                        leaves |-> nodes[1],
                        depth |-> Len(nodes) - 1,
                        nodes |-> nodes]]

\* order is the order in which the leaf hashes settle
createMerkleTree(chunkList, order) ==
    IF Len(chunkList) = 0
    THEN [res |-> "EmptyChunks", tree |-> NoTree]
    ELSE LET leaves == PromiseAll([i \in 1..Len(chunkList) |-> sha256(chunkList[i])], order)
             nodes == BuildLevels(PadLeaves(leaves))
         IN  [res |-> "ok",
              tree |-> [root |-> nodes[Len(nodes)][1],
                        leaves |-> leaves,
                        depth |-> Len(nodes) - 1,
                        nodes |-> nodes]]

-----------------------------------------------------------------------------
(* createCommitment *)

RECURSIVE SplitFrom(_, _)
SplitFrom(d, i) ==
    IF i < ByteLength(d)
    THEN <<Slice(d, i, Min(i + CHUNK_SIZE, ByteLength(d)))>> \o SplitFrom(d, i + CHUNK_SIZE)
    ELSE <<>>

\* mutant: no chunk is added for an empty input
SplitChunksNoEmpty(d) == SplitFrom(d, 0)

\* the chunk list createCommitment builds before it calls createMerkleTree
SplitChunks(d) ==
    LET sliced == SplitFrom(d, 0)
    IN  IF Len(sliced) = 0 THEN <<<<>>>> ELSE sliced

MessagesOf(byteArrays) == [i \in 1..Len(byteArrays) |-> RawMessage(byteArrays[i])]

createCommitment(d, order) ==
    LET r == createMerkleTree(MessagesOf(SplitChunks(d)), order)
    IN  [res |-> r.res, commitment |-> r.tree.root, tree |-> r.tree]

-----------------------------------------------------------------------------
(* generateProof, verifyProof.  leafIndex counts from 0 as in the source.  *)

\* mutant: the sibling is always taken to the right
RECURSIVE ProofWalkRightOnly(_, _, _, _, _)
ProofWalkRightOnly(t, level, idx, siblings, pathIndices) ==
    IF level < t.depth
    THEN LET isRightNode == idx % 2 = 1
             siblingIdx == idx + 1
             has == siblingIdx < Len(t.nodes[level + 1])
         IN  ProofWalkRightOnly(t, level + 1, idx \div 2,
                 IF has THEN Append(siblings, t.nodes[level + 1][siblingIdx + 1])
                        ELSE siblings,
                 IF has THEN Append(pathIndices, IF isRightNode THEN 0 ELSE 1)
                        ELSE pathIndices)
    ELSE [siblings |-> siblings, pathIndices |-> pathIndices]

\* mutant: the flag is 1 for a right node and 0 for a left one
RECURSIVE ProofWalkFlagsSwapped(_, _, _, _, _)
ProofWalkFlagsSwapped(t, level, idx, siblings, pathIndices) ==
    IF level < t.depth
    THEN LET isRightNode == idx % 2 = 1
             siblingIdx == IF isRightNode THEN idx - 1 ELSE idx + 1
             has == siblingIdx < Len(t.nodes[level + 1])
         IN  ProofWalkFlagsSwapped(t, level + 1, idx \div 2,
                 IF has THEN Append(siblings, t.nodes[level + 1][siblingIdx + 1])
                        ELSE siblings,
                 IF has THEN Append(pathIndices, IF isRightNode THEN 1 ELSE 0)
                        ELSE pathIndices)
    ELSE [siblings |-> siblings, pathIndices |-> pathIndices]

RECURSIVE ProofWalk(_, _, _, _, _)
ProofWalk(t, level, idx, siblings, pathIndices) ==
    IF level < t.depth
    THEN LET isRightNode == idx % 2 = 1
             siblingIdx == IF isRightNode THEN idx - 1 ELSE idx + 1
             has == siblingIdx < Len(t.nodes[level + 1])
         IN  ProofWalk(t, level + 1, idx \div 2,
                 IF has THEN Append(siblings, t.nodes[level + 1][siblingIdx + 1])
                        ELSE siblings,
                 IF has THEN Append(pathIndices, IF isRightNode THEN 0 ELSE 1)
                        ELSE pathIndices)
    ELSE [siblings |-> siblings, pathIndices |-> pathIndices]

\* mutant: index 0 is rejected
IndexInBoundsFromOne(t, leafIndex) == ~(leafIndex <= 0 \/ leafIndex >= Len(t.leaves))

IndexInBounds(t, leafIndex) == ~(leafIndex < 0 \/ leafIndex >= Len(t.leaves))

generateProof(t, leafIndex) ==
    IF ~IndexInBounds(t, leafIndex)
    THEN [res |-> "OutOfBounds", proof |-> NoProof]
    ELSE LET w == ProofWalk(t, 0, leafIndex, <<>>, <<>>)
         IN  [res |-> "ok",
              proof |-> [leaf |-> t.leaves[leafIndex + 1],
                         leafIndex |-> leafIndex,
                         siblings |-> w.siblings,
                         pathIndices |-> w.pathIndices]]

RECURSIVE FoldProof(_, _, _)
FoldProof(current, p, i) ==
    IF i <= Len(p.siblings)
    THEN LET sibling == p.siblings[i]
             pathIndexIsZero == i <= Len(p.pathIndices) /\ p.pathIndices[i] = 0
         IN  FoldProof(IF pathIndexIsZero THEN hashPair(sibling, current)
                                          ELSE hashPair(current, sibling),
                       p, i + 1)
    ELSE current

verifyProof(root, p) == FoldProof(p.leaf, p, 1) = root

-----------------------------------------------------------------------------
(***************************************************************************)
(* lib/seal.  Byte arrays here are sequences of numbers 0..255 and text is *)
(* a sequence of character codes; the header is ASCII, so a character is   *)
(* a byte.                                                                 *)
(***************************************************************************)

\* Uint8Array.prototype.slice(start, end): both ends clamped to the length
SliceBytes(s, start, end) == SubSeq(s, Min(start, Len(s)) + 1, Min(end, Len(s)))

RECURSIVE XorBits(_, _, _)
XorBits(a, b, bits) ==
    IF bits = 0 THEN 0
    ELSE ((a + b) % 2) + 2 * XorBits(a \div 2, b \div 2, bits - 1)

Xor(a, b) == XorBits(a, b, 8)

RECURSIVE XorFold(_)
XorFold(s) == IF s = <<>> THEN 0 ELSE Xor(Head(s), XorFold(Tail(s)))

-----------------------------------------------------------------------------
(* AES-256-GCM of crypto.subtle, by its contract: a stream cipher (the     *)
(* ciphertext body is the plaintext xor a key stream of the key and the    *)
(* nonce) followed by a 16-byte tag over the body, which decryption        *)
(* recomputes and compares before it releases any plaintext.  The tag is   *)
(* linear in the body as GHASH is, so every single-bit change of the body  *)
(* changes it.                                                             *)

TagLength == 128 \div 8

KeyStream(key, nonce, i) ==
    (key[(i % Len(key)) + 1] + nonce[(i % Len(nonce)) + 1] + i) % 256

StreamXor(key, nonce, bytes) ==
    [i \in 1..Len(bytes) |-> Xor(bytes[i], KeyStream(key, nonce, i - 1))]

AuthTag(key, nonce, body) ==
    [j \in 1..TagLength |->
        Xor(IF j = 1 THEN XorFold(body) ELSE IF j = 2 THEN Len(body) % 256 ELSE 0,
            KeyStream(key, nonce, 256 - j))]

AesGcmEncrypt(key, nonce, bytes) ==
    LET body == StreamXor(key, nonce, bytes)
    IN  body \o AuthTag(key, nonce, body)

\* mutant: the tag is not compared
AesGcmDecryptNoTagCheck(key, nonce, ciphertext) ==
    LET body == SubSeq(ciphertext, 1, Len(ciphertext) - TagLength)
    IN  IF Len(nonce) = 0 \/ Len(ciphertext) < TagLength
        THEN [res |-> "OperationError", plaintext |-> <<>>]
        ELSE [res |-> "ok", plaintext |-> StreamXor(key, nonce, body)]

AesGcmDecrypt(key, nonce, ciphertext) ==
    LET body == SubSeq(ciphertext, 1, Len(ciphertext) - TagLength)
        tag == SubSeq(ciphertext, Len(ciphertext) - TagLength + 1, Len(ciphertext))
    IN  IF Len(nonce) = 0 \/ Len(ciphertext) < TagLength
        THEN [res |-> "OperationError", plaintext |-> <<>>]
        ELSE IF tag # AuthTag(key, nonce, body)
        THEN [res |-> "OperationError", plaintext |-> <<>>]
        ELSE [res |-> "ok", plaintext |-> StreamXor(key, nonce, body)]

\* importKey("raw", ...) of an AES key: 128, 192 or 256 bits, else DataError
ImportKeyOk(rawKey) == Len(rawKey) \in {16, 24, 32}

-----------------------------------------------------------------------------
(* JSON.stringify and JSON.parse of the envelope header *)

RECURSIVE Digits(_)
Digits(n) == IF n < 10 THEN <<48 + n>> ELSE Digits(n \div 10) \o <<48 + (n % 10)>>

\* mutant: quotes and backslashes are written as they are
EscapeCharsNone(chars) == chars

RECURSIVE EscapeChars(_)
EscapeChars(chars) ==
    IF chars = <<>> THEN <<>>
    ELSE (IF Head(chars) \in {34, 92} THEN <<92, Head(chars)>> ELSE <<Head(chars)>>)
             \o EscapeChars(Tail(chars))

JsonString(chars) == <<34>> \o EscapeChars(chars) \o <<34>>

RECURSIVE JoinNumbers(_)
JoinNumbers(nums) ==
    IF nums = <<>> THEN <<>>
    ELSE IF Len(nums) = 1 THEN Digits(nums[1])
    ELSE Digits(nums[1]) \o <<44>> \o JoinNumbers(Tail(nums))

JsonArray(nums) == <<91>> \o JoinNumbers(nums) \o <<93>>

JsonStringify(h) ==
    <<123, 34, 112, 111, 108, 105, 99, 121, 73, 100, 34, 58>>
        \o JsonString(h.policyId)
    \o <<44, 34, 110, 111, 110, 99, 101, 34, 58>>
        \o JsonArray(h.nonce)
    \o <<44, 34, 101, 110, 99, 114, 121, 112, 116, 101, 100, 75, 101, 121, 34, 58>>
        \o JsonArray(h.encryptedKey)
    \o <<44, 34, 109, 101, 116, 97, 100, 97, 116, 97, 34, 58>>
    \o <<123, 34, 111, 114, 105, 103, 105, 110, 97, 108, 83, 105, 122, 101, 34, 58>>
        \o Digits(h.metadata.originalSize)
    \o <<44, 34, 97, 108, 103, 111, 114, 105, 116, 104, 109, 34, 58>>
        \o JsonString(h.metadata.algorithm)
    \o <<44, 34, 118, 101, 114, 115, 105, 111, 110, 34, 58>>
        \o Digits(h.metadata.version)
    \o <<125, 125>>

NoHeader ==
    [policyId |-> <<>>, nonce |-> <<>>, encryptedKey |-> <<>>,
     metadata |-> [originalSize |-> 0, algorithm |-> <<>>, version |-> 0]]

\* A parse step returns [ok, val, pos]: pos is the next unread position.
Expect(text, pos, lit) ==
    /\ pos + Len(lit) - 1 <= Len(text)
    /\ SubSeq(text, pos, pos + Len(lit) - 1) = lit

\* the characters of a string whose opening quote has been read
RECURSIVE ParseChars(_, _, _)
ParseChars(text, pos, acc) ==
    IF pos > Len(text) THEN [ok |-> FALSE, val |-> acc, pos |-> pos]
    ELSE IF text[pos] = 34 THEN [ok |-> TRUE, val |-> acc, pos |-> pos + 1]
    ELSE IF text[pos] = 92
         THEN IF pos + 1 <= Len(text) /\ text[pos + 1] \in {34, 92, 47}
              THEN ParseChars(text, pos + 2, Append(acc, text[pos + 1]))
              ELSE [ok |-> FALSE, val |-> acc, pos |-> pos]
    ELSE IF text[pos] < 32 THEN [ok |-> FALSE, val |-> acc, pos |-> pos]
    ELSE ParseChars(text, pos + 1, Append(acc, text[pos]))

ParseString(text, pos) ==
    IF Expect(text, pos, <<34>>)
    THEN ParseChars(text, pos + 1, <<>>)
    ELSE [ok |-> FALSE, val |-> <<>>, pos |-> pos]

IsDigit(c) == c >= 48 /\ c <= 57

RECURSIVE ParseDigits(_, _, _)
ParseDigits(text, pos, acc) ==
    IF pos <= Len(text) /\ IsDigit(text[pos])
    THEN ParseDigits(text, pos + 1, acc * 10 + (text[pos] - 48))
    ELSE [ok |-> TRUE, val |-> acc, pos |-> pos]

\* a non-negative integer without a leading zero
ParseNumber(text, pos) ==
    IF pos <= Len(text) /\ IsDigit(text[pos])
           /\ ~(text[pos] = 48 /\ pos + 1 <= Len(text) /\ IsDigit(text[pos + 1]))
    THEN ParseDigits(text, pos, 0)
    ELSE [ok |-> FALSE, val |-> 0, pos |-> pos]

\* the elements of an array whose opening bracket has been read
RECURSIVE ParseElements(_, _, _)
ParseElements(text, pos, acc) ==
    LET n == ParseNumber(text, pos)
    IN  IF ~n.ok THEN [ok |-> FALSE, val |-> acc, pos |-> pos]
        ELSE IF Expect(text, n.pos, <<44>>)
             THEN ParseElements(text, n.pos + 1, Append(acc, n.val))
        ELSE IF Expect(text, n.pos, <<93>>)
             THEN [ok |-> TRUE, val |-> Append(acc, n.val), pos |-> n.pos + 1]
        ELSE [ok |-> FALSE, val |-> acc, pos |-> n.pos]

ParseArray(text, pos) ==
    IF Expect(text, pos, <<91, 93>>) THEN [ok |-> TRUE, val |-> <<>>, pos |-> pos + 2]
    ELSE IF Expect(text, pos, <<91>>) THEN ParseElements(text, pos + 1, <<>>)
    ELSE [ok |-> FALSE, val |-> <<>>, pos |-> pos]

IsJsonWhitespace(c) == c \in {32, 9, 10, 13}

\* JSON.parse of a text that is a stringified header, cut short or followed
\* by further bytes: a SyntaxError unless the header is whole and whatever
\* follows it is white space.
JsonParse(text) ==
    LET k1 == <<123, 34, 112, 111, 108, 105, 99, 121, 73, 100, 34, 58>>
        k2 == <<44, 34, 110, 111, 110, 99, 101, 34, 58>>
        k3 == <<44, 34, 101, 110, 99, 114, 121, 112, 116, 101, 100, 75, 101, 121, 34, 58>>
        k4 == <<44, 34, 109, 101, 116, 97, 100, 97, 116, 97, 34, 58,
                123, 34, 111, 114, 105, 103, 105, 110, 97, 108, 83, 105, 122, 101, 34, 58>>
        k5 == <<44, 34, 97, 108, 103, 111, 114, 105, 116, 104, 109, 34, 58>>
        k6 == <<44, 34, 118, 101, 114, 115, 105, 111, 110, 34, 58>>
        k7 == <<125, 125>>
        id == ParseString(text, 1 + Len(k1))
        nonce == ParseArray(text, id.pos + Len(k2))
        key == ParseArray(text, nonce.pos + Len(k3))
        size == ParseNumber(text, key.pos + Len(k4))
        alg == ParseString(text, size.pos + Len(k5))
        ver == ParseNumber(text, alg.pos + Len(k6))
        ok == /\ Expect(text, 1, k1) /\ id.ok
              /\ Expect(text, id.pos, k2) /\ nonce.ok
              /\ Expect(text, nonce.pos, k3) /\ key.ok
              /\ Expect(text, key.pos, k4) /\ size.ok
              /\ Expect(text, size.pos, k5) /\ alg.ok
              /\ Expect(text, alg.pos, k6) /\ ver.ok
              /\ Expect(text, ver.pos, k7)
              /\ \A i \in (ver.pos + Len(k7))..Len(text) : IsJsonWhitespace(text[i])
    IN  IF ok
        THEN [res |-> "ok",
              header |-> [policyId |-> id.val, nonce |-> nonce.val,
                          encryptedKey |-> key.val,
                          metadata |-> [originalSize |-> size.val,
                                        algorithm |-> alg.val,
                                        version |-> ver.val]]]
        ELSE [res |-> "SyntaxError", header |-> NoHeader]

-----------------------------------------------------------------------------
(* serializeEnvelope, deserializeEnvelope *)

NoEnvelope ==
    [ciphertext |-> <<>>, nonce |-> <<>>, policyId |-> <<>>, encryptedKey |-> <<>>,
     metadata |-> [originalSize |-> 0, algorithm |-> <<>>, version |-> 0]]

\* new Uint32Array([n]) seen as bytes, and back (little-endian host)
Uint32Bytes(n) ==
    <<n % 256, (n \div 256) % 256, (n \div 65536) % 256, (n \div 16777216) % 256>>

Uint32Of(bytes) == bytes[1] + 256 * bytes[2] + 65536 * bytes[3] + 16777216 * bytes[4]

\* new Uint8Array(numbers)
ToUint8Array(nums) == [i \in 1..Len(nums) |-> nums[i] % 256]

serializeEnvelope(env) ==
    LET header == JsonStringify([policyId |-> env.policyId,
                                 nonce |-> env.nonce,
                                 encryptedKey |-> env.encryptedKey,
                                 metadata |-> env.metadata])
    IN  Uint32Bytes(Len(header)) \o header \o env.ciphertext

\* mutant: the ciphertext is read from headerLength, not 4 + headerLength
deserializeEnvelopeNoPrefix(bytes) ==
    LET headerLength == Uint32Of(SliceBytes(bytes, 0, 4))
        headerBytes == SliceBytes(bytes, 4, 4 + headerLength)
        parsed == JsonParse(headerBytes)
        ciphertext == SliceBytes(bytes, headerLength, Len(bytes))
    IN  IF parsed.res # "ok"
        THEN [res |-> parsed.res, envelope |-> NoEnvelope]
        ELSE [res |-> "ok",
              envelope |-> [policyId |-> parsed.header.policyId,
                            nonce |-> ToUint8Array(parsed.header.nonce),
                            encryptedKey |-> ToUint8Array(parsed.header.encryptedKey),
                            metadata |-> parsed.header.metadata,
                            ciphertext |-> ciphertext]]

\* bytes is an array that starts at offset 0 of its buffer, as the arrays
\* serializeEnvelope and retrieveFromWalrus return do, so data.buffer.slice(0, 4)
\* holds its first four bytes.
deserializeEnvelope(bytes) ==
    LET headerLength == Uint32Of(SliceBytes(bytes, 0, 4))
        headerBytes == SliceBytes(bytes, 4, 4 + headerLength)
        parsed == JsonParse(headerBytes)
        ciphertext == SliceBytes(bytes, 4 + headerLength, Len(bytes))
    IN  IF parsed.res # "ok"
        THEN [res |-> parsed.res, envelope |-> NoEnvelope]
        ELSE [res |-> "ok",
              envelope |-> [policyId |-> parsed.header.policyId,
                            nonce |-> ToUint8Array(parsed.header.nonce),
                            encryptedKey |-> ToUint8Array(parsed.header.encryptedKey),
                            metadata |-> parsed.header.metadata,
                            ciphertext |-> ciphertext]]

-----------------------------------------------------------------------------
(* createPolicy, encryptWithSeal, decryptWithSeal *)

MS_PER_DAY == 24 * 60 * 60 * 1000

HexChar(d) == IF d < 10 THEN 48 + d ELSE 87 + d

\* b.toString(16).padStart(2, "0") of each byte, joined
RECURSIVE HexOfBytes(_)
HexOfBytes(bytes) ==
    IF bytes = <<>> THEN <<>>
    ELSE <<HexChar(Head(bytes) \div 16), HexChar(Head(bytes) % 16)>> \o HexOfBytes(Tail(bytes))

generatePolicyId(randomBytes) == HexOfBytes(randomBytes)

Undefined == [defined |-> FALSE, items |-> <<>>]
ArrayOf(items) == [defined |-> TRUE, items |-> items]

NoPolicy ==
    [id |-> <<>>, type |-> "custom", retentionDays |-> 0, consentRequired |-> FALSE,
     allowlist |-> Undefined, expiresAt |-> 0, createdAt |-> 0]

\* clock is Date.now(); randomBytes the 16 bytes drawn for the id
createPolicy(params, clock, randomBytes) ==
    [id |-> generatePolicyId(randomBytes),
     type |-> params.type,
     retentionDays |-> params.retentionDays,
     consentRequired |-> params.consentRequired,
     allowlist |-> params.allowlist,
     expiresAt |-> clock + params.retentionDays * MS_PER_DAY,
     createdAt |-> clock]

\* mutant: every envelope is sealed with one key kept outside the call
encryptWithSealStoredKey(bytes, pol, key, nonce) ==
    LET storedKey == [i \in 1..32 |-> 7]
    IN  [ciphertext |-> AesGcmEncrypt(storedKey, nonce, bytes),
         nonce |-> [i \in 1..12 |-> 3],
         policyId |-> pol.id,
         encryptedKey |-> storedKey,
         metadata |-> [originalSize |-> Len(bytes),
                       algorithm |-> <<65, 69, 83, 45, 50, 53, 54, 45, 71, 67, 77>>,
                       version |-> 1]]

\* key and nonce are the values generateKey and getRandomValues draw
encryptWithSeal(bytes, pol, key, nonce) ==
    [ciphertext |-> AesGcmEncrypt(key, nonce, bytes),
     nonce |-> nonce,
     policyId |-> pol.id,
     encryptedKey |-> key,
     metadata |-> [originalSize |-> Len(bytes),
                   algorithm |-> <<65, 69, 83, 45, 50, 53, 54, 45, 71, 67, 77>>,
                   version |-> 1]]

Includes(items, x) == \E i \in 1..Len(items) : items[i] = x

\* mutant: a policy is expired for one millisecond only
IsExpiredForAnInstant(clock, pol) == clock = pol.expiresAt + 1

\* the expiry test
IsExpired(clock, pol) == clock > pol.expiresAt

\* the allowlist test: an array is truthy, the empty one too
IsDenied(pol, requesterAddress) ==
    pol.allowlist.defined /\ ~Includes(pol.allowlist.items, requesterAddress)

\* mutant: the allowlist is tested before the expiry
decryptWithSealAllowlistFirst(env, pol, requesterAddress, clock) ==
    IF IsDenied(pol, requesterAddress)
    THEN [res |-> "AccessDenied", plaintext |-> <<>>]
    ELSE IF IsExpired(clock, pol)
    THEN [res |-> "PolicyExpired", plaintext |-> <<>>]
    ELSE IF ~ImportKeyOk(env.encryptedKey)
    THEN [res |-> "DataError", plaintext |-> <<>>]
    ELSE AesGcmDecrypt(env.encryptedKey, env.nonce, env.ciphertext)

\* clock is Date.now() at the call
decryptWithSeal(env, pol, requesterAddress, clock) ==
    IF IsExpired(clock, pol)
    THEN [res |-> "PolicyExpired", plaintext |-> <<>>]
    ELSE IF IsDenied(pol, requesterAddress)
    THEN [res |-> "AccessDenied", plaintext |-> <<>>]
    ELSE IF ~ImportKeyOk(env.encryptedKey)
    THEN [res |-> "DataError", plaintext |-> <<>>]
    ELSE AesGcmDecrypt(env.encryptedKey, env.nonce, env.ciphertext)

-----------------------------------------------------------------------------
(* createCommitmentWithMetadata.  The metadata object is the sequence of   *)
(* its properties in insertion order, the order JSON.stringify writes them *)
(* in; a value is a number or a boolean.                                   *)

Num(n) == [type |-> "number", n |-> n, b |-> FALSE]
Bool(b) == [type |-> "boolean", n |-> 0, b |-> b]

KeyChars(key) ==
    CASE key = "retentionDays" -> <<114, 101, 116, 101, 110, 116, 105, 111, 110, 68, 97, 121, 115>>
      [] key = "consentSigned" -> <<99, 111, 110, 115, 101, 110, 116, 83, 105, 103, 110, 101, 100>>
      [] key = "timestamp" -> <<116, 105, 109, 101, 115, 116, 97, 109, 112>>

JsonValue(v) ==
    IF v.type = "number" THEN Digits(v.n)
    ELSE IF v.b THEN <<116, 114, 117, 101>> ELSE <<102, 97, 108, 115, 101>>

RECURSIVE JsonMembers(_)
JsonMembers(props) ==
    IF props = <<>> THEN <<>>
    ELSE JsonString(KeyChars(Head(props).key)) \o <<58>> \o JsonValue(Head(props).value)
             \o (IF Len(props) > 1 THEN <<44>> ELSE <<>>)
             \o JsonMembers(Tail(props))

\* JSON.stringify(metadata)
JsonStringifyObject(props) == <<123>> \o JsonMembers(props) \o <<125>>

\* the bytes of a text, in runs: those of its two halves, joined
RECURSIVE RunsOf(_)
RunsOf(bytes) ==
    IF Len(bytes) = 0 THEN <<>>
    ELSE IF Len(bytes) = 1 THEN <<[b |-> bytes[1], n |-> 1]>>
    ELSE LET half == Len(bytes) \div 2
         IN  Concat(RunsOf(SubSeq(bytes, 1, half)),
                    RunsOf(SubSeq(bytes, half + 1, Len(bytes))))

NoCombined == [commitment |-> NoDigest, metadataHash |-> NoDigest, combinedCommitment |-> NoDigest]

\* mutant: the combined value leaves the metadata hash out
createCommitmentWithMetadataRootOnly(d, meta, order) ==
    LET c == createCommitment(d, order)
        metadataBytes == RunsOf(JsonStringifyObject(meta))
        metadataHash == sha256(RawMessage(metadataBytes))
    IN  [res |-> c.res,
         out |-> [commitment |-> c.commitment,
                  metadataHash |-> metadataHash,
                  combinedCommitment |-> sha256(TextEncode(<<c.commitment>>))]]

createCommitmentWithMetadata(d, meta, order) ==
    LET c == createCommitment(d, order)
        metadataBytes == RunsOf(JsonStringifyObject(meta))
        metadataHash == sha256(RawMessage(metadataBytes))
        combinedCommitment == hashPair(c.commitment, metadataHash)
    IN  [res |-> c.res,
         out |-> [commitment |-> c.commitment,
                  metadataHash |-> metadataHash,
                  combinedCommitment |-> combinedCommitment]]

-----------------------------------------------------------------------------
(* zk_storage::storage_receipt.  A call either aborts with a code, and the *)
(* transaction leaves every object as it was, or returns the objects as    *)
(* it wrote them.                                                          *)

NoReceipt ==
    [owner |-> "0x0", commitment |-> <<>>, created_at |-> 0, expires_at |-> 0,
     consent_signed |-> FALSE, verified |-> FALSE, verification_count |-> 0]

create_receipt(commitment, retention_days, consent_signed, timestamp_ms, sender) ==
    LET current_time == timestamp_ms
        expires_at == current_time + (retention_days * 24 * 60 * 60 * 1000)
    IN  [owner |-> sender,
         commitment |-> commitment,
         created_at |-> current_time,
         expires_at |-> expires_at,
         consent_signed |-> consent_signed,
         verified |-> FALSE,
         verification_count |-> 0]

\* mutant: the receipt can still be marked at the instant it expires
mark_verifiedAtExpiry(r, timestamp_ms) ==
    LET current_time == timestamp_ms
    IN  IF ~(current_time <= r.expires_at)
        THEN [abort |-> "EReceiptExpired", receipt |-> r]
        ELSE [abort |-> "none",
              receipt |-> [r EXCEPT !.verified = TRUE,
                                    !.verification_count = r.verification_count + 1]]

mark_verified(r, timestamp_ms) ==
    LET current_time == timestamp_ms
    IN  IF ~(current_time < r.expires_at)
        THEN [abort |-> "EReceiptExpired", receipt |-> r]
        ELSE [abort |-> "none",
              receipt |-> [r EXCEPT !.verified = TRUE,
                                    !.verification_count = r.verification_count + 1]]

is_valid(r, timestamp_ms) == timestamp_ms < r.expires_at

\* the receipt object is consumed when the call does not abort
delete_expired_receipt(r, timestamp_ms) ==
    LET current_time == timestamp_ms
    IN  IF ~(current_time >= r.expires_at)
        THEN [abort |-> "EReceiptExpired", deleted |-> FALSE]
        ELSE [abort |-> "none", deleted |-> TRUE]

-----------------------------------------------------------------------------
(* zk_storage::proof_verifier *)

NoRegistry == [total_verifications |-> 0]

compute_proof_hash(proof_a, proof_b, proof_c) == proof_a \o proof_b \o proof_c

verify_groth16_proof(proof_a, proof_b, proof_c, public_signals) ==
    Len(proof_a) > 0 /\ Len(proof_b) > 0 /\ Len(proof_c) > 0

\* the transaction aborts with code
Aborted(code, reg, r) ==
    [abort |-> code, registry |-> reg, receipt |-> r, success |-> FALSE]

\* what the four verify functions share from the marking of the receipt on:
\* mark_verified when compliant, then the count of the registry
MarkAndCount(reg, r, compliant, timestamp_ms) ==
    LET marked == IF compliant THEN mark_verified(r, timestamp_ms)
                               ELSE [abort |-> "none", receipt |-> r]
    IN  IF marked.abort # "none"
        THEN Aborted(marked.abort, reg, r)
        ELSE [abort |-> "none",
              registry |-> [reg EXCEPT !.total_verifications = reg.total_verifications + 1],
              receipt |-> marked.receipt,
              success |-> compliant]

verify_storage_proof(reg, r, proof_a, proof_b, proof_c, public_signals, timestamp_ms) ==
    IF Len(public_signals) > 0 /\ ~(r.commitment = public_signals[1])
    THEN Aborted("ECommitmentMismatch", reg, r)
    ELSE MarkAndCount(reg, r,
                      verify_groth16_proof(proof_a, proof_b, proof_c, public_signals),
                      timestamp_ms)

verify_retention_proof(reg, r, proof_a, proof_b, proof_c, public_signals, timestamp_ms) ==
    LET valid == verify_groth16_proof(proof_a, proof_b, proof_c, public_signals)
        is_compliant == valid
    IN  MarkAndCount(reg, r, is_compliant, timestamp_ms)

verify_consent_proof(reg, r, proof_a, proof_b, proof_c, public_signals, timestamp_ms) ==
    LET valid == verify_groth16_proof(proof_a, proof_b, proof_c, public_signals)
        has_consent == r.consent_signed
        is_compliant == valid /\ has_consent
    IN  MarkAndCount(reg, r, is_compliant, timestamp_ms)

verify_threshold_proof(reg, r, proof_a, proof_b, proof_c, public_signals, auditor_address, timestamp_ms, sender) ==
    IF ~(sender = auditor_address)
    THEN Aborted("EUnauthorized", reg, r)
    ELSE MarkAndCount(reg, r,
                      verify_groth16_proof(proof_a, proof_b, proof_c, public_signals),
                      timestamp_ms)

NoArgs == [proof_a |-> <<>>, proof_b |-> <<>>, proof_c |-> <<>>, public_signals |-> <<>>]

NoTx ==
    [fn |-> "none", abort |-> "none", at |-> 0, args |-> NoArgs, success |-> FALSE,
     before |-> [receipt |-> NoReceipt, registry |-> NoRegistry, accepted |-> {}]]

-----------------------------------------------------------------------------
(* zk_storage::compliance_ledger.  The table records_by_receipt is a       *)
(* function whose domain is the set of keys the table contains.            *)

EmptyTable == [k \in {} |-> <<>>]

\* the ledger init shares
NewLedger == [total_records |-> 0, records_by_receipt |-> EmptyTable, next_record_id |-> 1]

TableContains(table, k) == k \in DOMAIN table

TableAdd(table, k, v) == [j \in (DOMAIN table) \cup {k} |-> IF j = k THEN v ELSE table[j]]

\* mutant: the counter of record ids is left as it was
record_complianceSameId(l, receipt_id, compliance_type, timestamp_ms, sender) ==
    LET record_id == l.next_record_id
        indexed == IF ~TableContains(l.records_by_receipt, receipt_id)
                   THEN TableAdd(l.records_by_receipt, receipt_id, <<>>)
                   ELSE l.records_by_receipt
    IN  [ledger |-> [total_records |-> l.total_records + 1,
                     records_by_receipt |->
                        [indexed EXCEPT ![receipt_id] = Append(indexed[receipt_id], record_id)],
                     next_record_id |-> record_id],
         record |-> [record_id |-> record_id, receipt_id |-> receipt_id,
                     compliance_type |-> compliance_type, verifier |-> sender,
                     verified_at |-> timestamp_ms]]

record_compliance(l, receipt_id, compliance_type, timestamp_ms, sender) ==
    LET record_id == l.next_record_id
        indexed == IF ~TableContains(l.records_by_receipt, receipt_id)
                   THEN TableAdd(l.records_by_receipt, receipt_id, <<>>)
                   ELSE l.records_by_receipt
    IN  [ledger |-> [total_records |-> l.total_records + 1,
                     records_by_receipt |->
                        [indexed EXCEPT ![receipt_id] = Append(indexed[receipt_id], record_id)],
                     next_record_id |-> record_id + 1],
         record |-> [record_id |-> record_id, receipt_id |-> receipt_id,
                     compliance_type |-> compliance_type, verifier |-> sender,
                     verified_at |-> timestamp_ms]]

\* record_and_transfer hands the record of record_compliance to the sender
record_and_transfer(l, receipt_id, compliance_type, timestamp_ms, sender) ==
    record_compliance(l, receipt_id, compliance_type, timestamp_ms, sender)

get_record_count(l, receipt_id) ==
    IF TableContains(l.records_by_receipt, receipt_id)
    THEN Len(l.records_by_receipt[receipt_id])
    ELSE 0

get_record_ids(l, receipt_id) ==
    IF TableContains(l.records_by_receipt, receipt_id)
    THEN l.records_by_receipt[receipt_id]
    ELSE <<>>

total_records(l) == l.total_records

-----------------------------------------------------------------------------
(* lib/zk-prover: verifyProof.  The fetch of the verification key and      *)
(* snarkjs.groth16.verify are calls out of the module; how they end is an  *)
(* input.                                                                  *)

NoBundleProof == [defined |-> FALSE, pi_a |-> Undefined, pi_b |-> Undefined, pi_c |-> Undefined]

NoBundle ==
    [proof |-> NoBundleProof, publicSignals |-> Undefined, commitment |-> "",
     proofType |-> "storage"]

\* the file name of the circuit of a proof type
CircuitName(proofType) ==
    CASE proofType = "storage" -> "storage_proof"
      [] proofType = "retention" -> "retention_proof"
      [] proofType = "consent" -> "consent_proof"
      [] proofType = "threshold" -> "threshold_proof"

\* fetchOutcome: "ok", "notOk" (response.ok is false), "rejected" (fetch
\* rejects) or "badJson" (response.json() rejects)
loadVerificationKey(proofType, fetchOutcome) ==
    IF fetchOutcome = "ok"
    THEN [res |-> "ok", vKey |-> CircuitName(proofType)]
    ELSE [res |-> "throws", vKey |-> ""]

\* the test of pi_a, pi_b and pi_c: "TypeError" when .length is read of a
\* property that is not there, else whether a length is not 3
ProofStructure(p) ==
    IF ~p.pi_a.defined THEN "TypeError"
    ELSE IF Len(p.pi_a.items) # 3 THEN "bad"
    ELSE IF ~p.pi_b.defined THEN "TypeError"
    ELSE IF Len(p.pi_b.items) # 3 THEN "bad"
    ELSE IF ~p.pi_c.defined THEN "TypeError"
    ELSE IF Len(p.pi_c.items) # 3 THEN "bad"
    ELSE "good"

\* verifyProof of lib/zk-prover; snarkOutcome is "true", "false" or "throws".
\* fetched and snark say how the calls that were made ended.
zkVerifyProof(b, fetchOutcome, snarkOutcome) ==
    IF ~b.proof.defined \/ ~b.publicSignals.defined \/ b.commitment = ""
    THEN [res |-> "false", fetched |-> "none", snark |-> "none"]
    ELSE IF ProofStructure(b.proof) = "TypeError"
    THEN [res |-> "TypeError", fetched |-> "none", snark |-> "none"]
    ELSE IF ProofStructure(b.proof) = "bad"
    THEN [res |-> "false", fetched |-> "none", snark |-> "none"]
    ELSE IF loadVerificationKey(b.proofType, fetchOutcome).res # "ok"
    THEN [res |-> "true", fetched |-> fetchOutcome, snark |-> "none"]
    ELSE IF snarkOutcome = "throws"
    THEN [res |-> "true", fetched |-> fetchOutcome, snark |-> snarkOutcome]
    ELSE [res |-> snarkOutcome, fetched |-> fetchOutcome, snark |-> snarkOutcome]

-----------------------------------------------------------------------------
(* The sides that take no step in a run of another one *)

MerkleIdle ==
    /\ entry = "createCommitment"
    /\ data = <<>>
    /\ chunks = <<>>
    /\ tree = NoTree
    /\ treeRes = "none"
    /\ reqIndex = 0
    /\ proof = NoProof
    /\ proofRes = "none"
    /\ verifyRes = "none"
    /\ metadata = <<>>
    /\ committed = NoCombined
    /\ committedRes = "none"
    /\ again = [res |-> "none", tree |-> NoTree, out |-> NoCombined]
    /\ claimed = NoProof
    /\ claimedRes = "none"
    /\ longer = [res |-> "none", tree |-> NoTree]

SealIdle ==
    /\ now = 0
    /\ policy = NoPolicy
    /\ policyRes = "none"
    /\ plaintext = <<>>
    /\ envelope = NoEnvelope
    /\ envRes = "none"
    /\ wire = <<>>
    /\ wireRes = "none"
    /\ decoded = NoEnvelope
    /\ decodedRes = "none"
    /\ requester = "0xAAA"
    /\ decryptRes = "none"
    /\ decrypted = <<>>
    /\ draws = 0
    /\ issued = <<>>
    /\ expiredAt = -1

ChainIdle ==
    /\ clockMs = 0
    /\ receipt = NoReceipt
    /\ receiptRes = "none"
    /\ registry = NoRegistry
    /\ accepted = {}
    /\ tx = NoTx

LedgerIdle ==
    /\ ledger = NewLedger
    /\ issuedRecords = <<>>

ProverIdle ==
    /\ bundle = NoBundle
    /\ fetched = "none"
    /\ snark = "none"
    /\ zkRes = "none"

-----------------------------------------------------------------------------
(* Inputs *)

RunLengths ==
    {n \in {k * CHUNK_SIZE + r : k \in 0..MaxFull, r \in {-1, 0, 1}} : n >= 1}

ByteValues == {0, 255}

Runs == [b : ByteValues, n : RunLengths]

RunSeqs == UNION {[1..k -> Runs] : k \in 0..MaxRuns}

DataInputs == {d \in RunSeqs : \A k \in 1..(Len(d) - 1) : d[k].b # d[k + 1].b}

SmallChunks == {<<>>, <<[b |-> 0, n |-> 1]>>, <<[b |-> 255, n |-> 1]>>}

\* every list of up to MaxLeaves chunks, and one list of two more
ChunkLists ==
    UNION {[1..k -> {RawMessage(c) : c \in SmallChunks}] : k \in 0..MaxLeaves}
        \cup {[k \in 1..(MaxLeaves + 2) |->
                    RawMessage(<<[b |-> IF k % 2 = 0 THEN 0 ELSE 255, n |-> 1]>>)]}

\* the object literal of the upload and verify pages, and the same values
\* with the timestamp written first
MetadataOf(r, c, t) ==
    <<[key |-> "retentionDays", value |-> Num(r)],
      [key |-> "consentSigned", value |-> Bool(c)],
      [key |-> "timestamp", value |-> Num(t)]>>

MetadataInputs ==
    LET literals == {MetadataOf(r, c, t) : r \in {1, 30}, c \in BOOLEAN, t \in {0, 1}}
    IN  literals \cup {<<m[3], m[1], m[2]>> : m \in literals}

\* orders in which n leaf hashes may settle: first to last, last to first,
\* and the first one last
SettleOrders(n) ==
    {[k \in 1..n |-> k], [k \in 1..n |-> n + 1 - k], [k \in 1..n |-> (k % n) + 1]}

NoAgain == [res |-> "none", tree |-> NoTree, out |-> NoCombined]

NoLonger == [res |-> "none", tree |-> NoTree]

NodeSet(t) == UNION {{t.nodes[l][i] : i \in 1..Len(t.nodes[l])} : l \in 1..Len(t.nodes)}

\* the digest of a chunk that is in no tree of the model
ForeignDigest == sha256(RawMessage(<<[b |-> 7, n |-> 1]>>))

\* proofs a caller may build from what a tree holds: the path of a leaf,
\* whole or without its first levels, under any digest as the leaf
PresentedProofs(t) ==
    UNION {{[leaf |-> l,
             leafIndex |-> i,
             siblings |-> SubSeq(generateProof(t, i).proof.siblings, j + 1, t.depth),
             pathIndices |-> SubSeq(generateProof(t, i).proof.pathIndices, j + 1, t.depth)] :
                l \in NodeSet(t) \cup {ForeignDigest}, j \in 0..t.depth} :
           i \in 0..(Len(t.leaves) - 1)}

-----------------------------------------------------------------------------
(* The commitment side as a state machine: one action per call *)

MerkleInit ==
    /\ \/ /\ entry = "createCommitment"
          /\ data \in DataInputs
          /\ chunks = <<>>
          /\ metadata = <<>>
       \/ /\ entry = "createMerkleTree"
          /\ data = <<>>
          /\ chunks \in ChunkLists
          /\ metadata = <<>>
       \/ /\ entry = "createCommitmentWithMetadata"
          /\ data \in {d \in DataInputs : Len(d) <= 1}
          /\ chunks = <<>>
          /\ metadata \in MetadataInputs
    /\ tree = NoTree
    /\ treeRes = "none"
    /\ reqIndex = 0
    /\ proof = NoProof
    /\ proofRes = "none"
    /\ verifyRes = "none"
    /\ committed = NoCombined
    /\ committedRes = "none"
    /\ again = NoAgain
    /\ claimed = NoProof
    /\ claimedRes = "none"
    /\ longer = NoLonger
    \* the envelope side stays idle
    /\ now = 0
    /\ policy = NoPolicy
    /\ policyRes = "none"
    /\ plaintext = <<>>
    /\ envelope = NoEnvelope
    /\ envRes = "none"
    /\ wire = <<>>
    /\ wireRes = "none"
    /\ decoded = NoEnvelope
    /\ decodedRes = "none"
    /\ requester = "0xAAA"
    /\ decryptRes = "none"
    /\ decrypted = <<>>
    /\ draws = 0
    /\ issued = <<>>
    /\ expiredAt = -1
    /\ ChainIdle
    /\ LedgerIdle
    /\ ProverIdle

CreateCommitmentCall ==
    /\ entry = "createCommitment"
    /\ treeRes = "none"
    /\ \E order \in SettleOrders(Len(SplitChunks(data))) :
        LET r == createCommitment(data, order)
        IN  /\ chunks' = MessagesOf(SplitChunks(data))
            /\ tree' = r.tree
            /\ treeRes' = r.res
    /\ UNCHANGED <<entry, data, reqIndex, proof, proofRes, verifyRes,
                   metadata, committed, committedRes, again, claimed, claimedRes>>
    /\ UNCHANGED longer
    /\ UNCHANGED <<sealVars, chainVars, ledgerVars, proverVars>>

CreateMerkleTreeCall ==
    /\ entry = "createMerkleTree"
    /\ treeRes = "none"
    /\ \E order \in SettleOrders(Len(chunks)) :
        LET r == createMerkleTree(chunks, order)
        IN  /\ tree' = r.tree
            /\ treeRes' = r.res
    /\ UNCHANGED <<entry, data, chunks, reqIndex, proof, proofRes, verifyRes,
                   metadata, committed, committedRes, again, claimed, claimedRes>>
    /\ UNCHANGED longer
    /\ UNCHANGED <<sealVars, chainVars, ledgerVars, proverVars>>

CreateCommitmentWithMetadataCall ==
    /\ entry = "createCommitmentWithMetadata"
    /\ committedRes = "none"
    /\ \E order \in SettleOrders(Len(SplitChunks(data))) :
        LET r == createCommitmentWithMetadata(data, metadata, order)
        IN  /\ committed' = r.out
            /\ committedRes' = r.res
    /\ UNCHANGED <<entry, data, chunks, tree, treeRes, reqIndex, proof, proofRes,
                   verifyRes, metadata, again, claimed, claimedRes>>
    /\ UNCHANGED longer
    /\ UNCHANGED <<sealVars, chainVars, ledgerVars, proverVars>>

\* createMerkleTree is called once more with the chunks of the first call,
\* after whatever other calls were made
CreateMerkleTreeAgain ==
    /\ entry = "createMerkleTree"
    /\ treeRes # "none"
    /\ again.res = "none"
    /\ longer.res = "none"
    /\ \E order \in SettleOrders(Len(chunks)) :
        LET r == createMerkleTree(chunks, order)
        IN  again' = [res |-> r.res, tree |-> r.tree, out |-> NoCombined]
    /\ UNCHANGED <<entry, data, chunks, tree, treeRes, reqIndex, proof, proofRes,
                   verifyRes, metadata, committed, committedRes, claimed, claimedRes>>
    /\ UNCHANGED longer
    /\ UNCHANGED <<sealVars, chainVars, ledgerVars, proverVars>>

CreateCommitmentWithMetadataAgain ==
    /\ committedRes # "none"
    /\ again.res = "none"
    /\ \E order \in SettleOrders(Len(SplitChunks(data))) :
        LET r == createCommitmentWithMetadata(data, metadata, order)
        IN  again' = [res |-> r.res, tree |-> NoTree, out |-> r.out]
    /\ UNCHANGED <<entry, data, chunks, tree, treeRes, reqIndex, proof, proofRes,
                   verifyRes, metadata, committed, committedRes, claimed, claimedRes>>
    /\ UNCHANGED longer
    /\ UNCHANGED <<sealVars, chainVars, ledgerVars, proverVars>>

\* any index from one below the first leaf to one past the padded level.
\* A caller works with the proofs of generateProof or with one of its own
\* making, so a run holds calls of this action or one of the last action.
GenerateProofCall ==
    /\ treeRes = "ok"
    /\ claimedRes = "none"
    /\ longer.res = "none"
    /\ \E i \in -1..Len(tree.nodes[1]) :
        LET r == generateProof(tree, i)
        IN  /\ reqIndex' = i
            /\ proof' = r.proof
            /\ proofRes' = r.res
            /\ verifyRes' = "none"
    /\ UNCHANGED <<entry, data, chunks, tree, treeRes,
                   metadata, committed, committedRes, again, claimed, claimedRes>>
    /\ UNCHANGED longer
    /\ UNCHANGED <<sealVars, chainVars, ledgerVars, proverVars>>

VerifyProofCall ==
    /\ proofRes = "ok"
    /\ verifyRes' = IF verifyProof(tree.root, proof) THEN "true" ELSE "false"
    /\ UNCHANGED <<entry, data, chunks, tree, treeRes, reqIndex, proof, proofRes,
                   metadata, committed, committedRes, again, claimed, claimedRes>>
    /\ UNCHANGED longer
    /\ UNCHANGED <<sealVars, chainVars, ledgerVars, proverVars>>

\* verifyProof(tree.root, p) for a proof p that generateProof did not return
VerifyPresentedProofCall ==
    /\ entry = "createMerkleTree"
    /\ treeRes = "ok"
    /\ proofRes = "none"
    /\ claimedRes = "none"
    /\ longer.res = "none"
    /\ \E p \in PresentedProofs(tree) :
        /\ claimed' = p
        /\ claimedRes' = IF verifyProof(tree.root, p) THEN "true" ELSE "false"
    /\ UNCHANGED <<entry, data, chunks, tree, treeRes, reqIndex, proof, proofRes,
                   verifyRes, metadata, committed, committedRes, again>>
    /\ UNCHANGED longer
    /\ UNCHANGED <<sealVars, chainVars, ledgerVars, proverVars>>

\* createMerkleTree is called for the chunks of the first call followed by
\* one more copy of the last of them; a caller that compares the two roots
\* makes no other call in between or after.
CreateMerkleTreeLonger ==
    /\ entry = "createMerkleTree"
    /\ treeRes = "ok"
    /\ proofRes = "none"
    /\ claimedRes = "none"
    /\ again.res = "none"
    /\ longer.res = "none"
    /\ \E order \in SettleOrders(Len(chunks) + 1) :
        longer' = createMerkleTree(Append(chunks, chunks[Len(chunks)]), order)
    /\ UNCHANGED <<entry, data, chunks, tree, treeRes, reqIndex, proof, proofRes,
                   verifyRes, metadata, committed, committedRes, again, claimed, claimedRes>>
    /\ UNCHANGED <<sealVars, chainVars, ledgerVars, proverVars>>

MerkleNext ==
    \/ CreateCommitmentCall
    \/ CreateMerkleTreeCall
    \/ CreateCommitmentWithMetadataCall
    \/ CreateMerkleTreeAgain
    \/ CreateCommitmentWithMetadataAgain
    \/ GenerateProofCall
    \/ VerifyProofCall
    \/ VerifyPresentedProofCall
    \/ CreateMerkleTreeLonger

MerkleSpec == MerkleInit /\ [][MerkleNext]_vars


-----------------------------------------------------------------------------
(* The envelope side as a state machine *)

MaxDays == 1        \* retentionDays of a policy
MaxPlain == 2       \* bytes of a plaintext
MaxEncrypts == 2    \* calls of encryptWithSeal in a run

Addresses == {"0xAAA", "0xBBB"}

Allowlists == {Undefined, ArrayOf(<<>>), ArrayOf(<<"0xAAA">>)}

PolicyParams ==
    {[type |-> IF a.defined THEN "allowlist" ELSE "time-lock",
      retentionDays |-> d, consentRequired |-> FALSE, allowlist |-> a] :
        d \in 1..MaxDays, a \in Allowlists}

Plaintexts == {[i \in 1..k |-> (85 * i + 170 * k) % 256] : k \in 0..MaxPlain}

\* The random source of crypto (getRandomValues, generateKey) never hands
\* out the same value twice: the n bytes of draw number d.
RandomBytes(n, d) == [i \in 1..n |-> (37 * d + 9 * i + 7) % 256]

\* envelopes a caller builds field by field
ConstructedEnvelopes ==
    [ciphertext : {<<>>, <<32>>, <<0, 255>>},
     nonce : {<<>>, <<0, 255>>},
     policyId : {<<>>, <<97, 34, 92>>},
     encryptedKey : {<<>>, <<7>>},
     metadata : [originalSize : {0, 1024}, algorithm : {<<65, 34>>}, version : {1}]]

\* bit k (0 the lowest) of byte b inverted
FlipBit(b, k) ==
    LET w == IF k = 0 THEN 1 ELSE IF k = 1 THEN 2 ELSE IF k = 2 THEN 4
             ELSE IF k = 3 THEN 8 ELSE IF k = 4 THEN 16 ELSE IF k = 5 THEN 32
             ELSE IF k = 6 THEN 64 ELSE 128
    IN  IF (b \div w) % 2 = 1 THEN b - w ELSE b + w

SealInit ==
    /\ now = 0
    /\ policy = NoPolicy
    /\ policyRes = "none"
    /\ plaintext = <<>>
    /\ envelope = NoEnvelope
    /\ envRes = "none"
    /\ wire = <<>>
    /\ wireRes = "none"
    /\ decoded = NoEnvelope
    /\ decodedRes = "none"
    /\ requester = "0xAAA"
    /\ decryptRes = "none"
    /\ decrypted = <<>>
    /\ draws = 0
    /\ issued = <<>>
    /\ expiredAt = -1
    \* the commitment side stays idle
    /\ entry = "createCommitment"
    /\ data = <<>>
    /\ chunks = <<>>
    /\ tree = NoTree
    /\ treeRes = "none"
    /\ reqIndex = 0
    /\ proof = NoProof
    /\ proofRes = "none"
    /\ verifyRes = "none"
    /\ metadata = <<>>
    /\ committed = NoCombined
    /\ committedRes = "none"
    /\ again = NoAgain
    /\ claimed = NoProof
    /\ claimedRes = "none"
    /\ longer = NoLonger
    /\ ChainIdle
    /\ LedgerIdle
    /\ ProverIdle

\* Every run starts with createPolicy; the other calls follow in the order
\* of the upload and verify pages.

CreatePolicyCall ==
    /\ policyRes = "none"
    /\ \E params \in PolicyParams :
        policy' = createPolicy(params, now, RandomBytes(16, draws))
    /\ policyRes' = "ok"
    /\ draws' = draws + 1
    /\ UNCHANGED <<now, plaintext, envelope, envRes, wire, wireRes,
                   decoded, decodedRes, requester, decryptRes, decrypted,
                   issued, expiredAt>>
    /\ UNCHANGED <<merkleVars, chainVars, ledgerVars, proverVars>>

\* createPolicy is called once more, and the policy it returns is the one
\* handed to decryptWithSeal from then on, with the envelope that was sealed
\* under the first one.
CreateOtherPolicyCall ==
    /\ envRes = "encrypted"
    /\ wireRes = "serialized"
    /\ decodedRes = "ok"
    /\ policy.id = envelope.policyId
    /\ \E params \in PolicyParams :
        policy' = createPolicy(params, now, RandomBytes(16, draws))
    /\ draws' = draws + 1
    /\ requester' = "0xAAA"
    /\ decryptRes' = "none"
    /\ decrypted' = <<>>
    /\ expiredAt' = -1
    /\ UNCHANGED <<now, policyRes, plaintext, envelope, envRes, wire, wireRes,
                   decoded, decodedRes, issued>>
    /\ UNCHANGED <<merkleVars, chainVars, ledgerVars, proverVars>>

\* The clock moves forward, to just before, at or after the expiry.
\* Only createPolicy and decryptWithSeal read it, so it is moved between
\* the two, once the stored bytes have been read back.  requester,
\* decryptRes and decrypted describe a call made at the instant now, so
\* they are cleared.
Tick ==
    /\ policyRes = "ok"
    /\ decodedRes = "ok"
    /\ \E t \in {policy.expiresAt - 1, policy.expiresAt,
                 policy.expiresAt + 1, policy.expiresAt + 2} :
        /\ t > now
        /\ now' = t
    /\ requester' = "0xAAA"
    /\ decryptRes' = "none"
    /\ decrypted' = <<>>
    /\ UNCHANGED <<policy, policyRes, plaintext, envelope, envRes, wire, wireRes,
                   decoded, decodedRes, draws, issued, expiredAt>>
    /\ UNCHANGED <<merkleVars, chainVars, ledgerVars, proverVars>>

\* encryptWithSeal may be called again before anything is stored; the
\* envelope of the last call is the one that is kept.
EncryptCall ==
    /\ policyRes = "ok"
    /\ envRes \in {"none", "encrypted"}
    /\ wireRes = "none"
    /\ Len(issued) < MaxEncrypts
    /\ \E bytes \in Plaintexts :
        LET key == RandomBytes(32, draws)
            nonce == RandomBytes(12, draws + 1)
            sealed == encryptWithSeal(bytes, policy, key, nonce)
        IN  /\ plaintext' = bytes
            /\ envelope' = sealed
            /\ issued' = Append(issued, [key |-> sealed.encryptedKey, nonce |-> sealed.nonce])
    /\ envRes' = "encrypted"
    /\ draws' = draws + 2
    /\ UNCHANGED <<now, policy, policyRes, wire, wireRes,
                   decoded, decodedRes, requester, decryptRes, decrypted, expiredAt>>
    /\ UNCHANGED <<merkleVars, chainVars, ledgerVars, proverVars>>

ConstructEnvelope ==
    /\ policyRes = "ok"
    /\ envRes = "none"
    /\ envelope' \in ConstructedEnvelopes
    /\ envRes' = "constructed"
    /\ UNCHANGED <<now, policy, policyRes, plaintext, wire, wireRes,
                   decoded, decodedRes, requester, decryptRes, decrypted>>
    /\ UNCHANGED <<draws, issued, expiredAt>>
    /\ UNCHANGED <<merkleVars, chainVars, ledgerVars, proverVars>>

SerializeCall ==
    /\ envRes # "none"
    /\ wireRes = "none"
    /\ wire' = serializeEnvelope(envelope)
    /\ wireRes' = "serialized"
    /\ UNCHANGED <<now, policy, policyRes, plaintext, envelope, envRes,
                   decoded, decodedRes, requester, decryptRes, decrypted>>
    /\ UNCHANGED <<draws, issued, expiredAt>>
    /\ UNCHANGED <<merkleVars, chainVars, ledgerVars, proverVars>>

\* one bit of the ciphertext part of the stored bytes of an encrypted
\* envelope is inverted (explored for the envelope of a first encryption)
TamperCiphertext ==
    /\ envRes = "encrypted"
    /\ Len(issued) = 1
    /\ wireRes = "serialized"
    /\ decodedRes = "none"
    /\ \E i \in (Len(wire) - Len(envelope.ciphertext) + 1)..Len(wire), k \in 0..7 :
        wire' = [wire EXCEPT ![i] = FlipBit(wire[i], k)]
    /\ wireRes' = "tampered"
    /\ UNCHANGED <<now, policy, policyRes, plaintext, envelope, envRes,
                   decoded, decodedRes, requester, decryptRes, decrypted>>
    /\ UNCHANGED <<draws, issued, expiredAt>>
    /\ UNCHANGED <<merkleVars, chainVars, ledgerVars, proverVars>>

\* header lengths the stored bytes may come back with: one less and one more
\* than the header has, and up to and past the end of the bytes
DeclaredLengths(bytes) ==
    LET headerLength == Uint32Of(SubSeq(bytes, 1, 4))
        rest == Len(bytes) - 4 - headerLength
    IN  {headerLength - 1, headerLength + 1, headerLength + rest, headerLength + rest + 1}
            \ {headerLength}

\* the header length field of the stored bytes is overwritten
RewriteHeaderLength ==
    /\ wireRes = "serialized"
    /\ decodedRes = "none"
    /\ \E n \in DeclaredLengths(wire) :
        wire' = Uint32Bytes(n) \o SubSeq(wire, 5, Len(wire))
    /\ wireRes' = "relengthed"
    /\ UNCHANGED <<now, policy, policyRes, plaintext, envelope, envRes,
                   decoded, decodedRes, requester, decryptRes, decrypted>>
    /\ UNCHANGED <<draws, issued, expiredAt>>
    /\ UNCHANGED <<merkleVars, chainVars, ledgerVars, proverVars>>

DeserializeCall ==
    /\ wireRes # "none"
    /\ decodedRes = "none"
    /\ LET r == deserializeEnvelope(wire)
       IN  /\ decoded' = r.envelope
           /\ decodedRes' = r.res
    /\ UNCHANGED <<now, policy, policyRes, plaintext, envelope, envRes, wire, wireRes,
                   requester, decryptRes, decrypted>>
    /\ UNCHANGED <<draws, issued, expiredAt>>
    /\ UNCHANGED <<merkleVars, chainVars, ledgerVars, proverVars>>

DecryptCall ==
    /\ decodedRes = "ok"
    /\ \E addr \in Addresses :
        LET r == decryptWithSeal(decoded, policy, addr, now)
        IN  /\ requester' = addr
            /\ decryptRes' = r.res
            /\ decrypted' = r.plaintext
            /\ expiredAt' = IF r.res = "PolicyExpired" /\ expiredAt = -1 THEN now
                                                                        ELSE expiredAt
    /\ UNCHANGED <<now, policy, policyRes, plaintext, envelope, envRes, wire, wireRes,
                   decoded, decodedRes>>
    /\ UNCHANGED <<draws, issued>>
    /\ UNCHANGED <<merkleVars, chainVars, ledgerVars, proverVars>>

SealNext ==
    \/ Tick
    \/ CreatePolicyCall
    \/ CreateOtherPolicyCall
    \/ EncryptCall
    \/ ConstructEnvelope
    \/ SerializeCall
    \/ TamperCiphertext
    \/ RewriteHeaderLength
    \/ DeserializeCall
    \/ DecryptCall

SealSpec == SealInit /\ [][SealNext]_vars

-----------------------------------------------------------------------------
(* The receipt and the proof registry on chain as a state machine: one     *)
(* action per transaction.  A transaction that aborts changes no object;   *)
(* tx keeps its call and its abort code.                                   *)

MaxVerifications == 2   \* verify transactions that are counted by the registry

Commitments == {<<1>>, <<2>>}

\* proof_a, proof_b, proof_c and the public signals of a verify call
ProofArgs ==
    [proof_a : {<<>>, <<1>>, <<4>>},
     proof_b : {<<2>>},
     proof_c : {<<3>>},
     public_signals : {<<>>, <<<<1>>>>, <<<<2>>, <<1>>>>}]

VerifyFns ==
    {"verify_storage_proof", "verify_retention_proof", "verify_consent_proof",
     "verify_threshold_proof"}

ChainInit ==
    /\ clockMs = 0
    /\ receipt = NoReceipt
    /\ receiptRes = "none"
    /\ registry = NoRegistry
    /\ accepted = {}
    /\ tx = NoTx
    /\ MerkleIdle
    /\ SealIdle
    /\ LedgerIdle
    /\ ProverIdle

\* the transaction fn(args) ended as res says: the objects are written when
\* it did not abort
Commit(fn, args, res) ==
    /\ tx' = [fn |-> fn, abort |-> res.abort, at |-> clockMs, args |-> args,
              success |-> res.success,
              before |-> [receipt |-> receipt, registry |-> registry, accepted |-> accepted]]
    /\ receipt' = IF res.abort = "none" THEN res.receipt ELSE receipt
    /\ registry' = IF res.abort = "none" THEN res.registry ELSE registry
    /\ accepted' = IF res.abort = "none" /\ res.success
                   THEN accepted \cup {compute_proof_hash(args.proof_a, args.proof_b, args.proof_c)}
                   ELSE accepted
    /\ UNCHANGED <<clockMs, receiptRes>>
    /\ UNCHANGED <<merkleVars, sealVars, ledgerVars, proverVars>>

\* create_and_transfer_receipt
CreateReceiptCall ==
    /\ receiptRes = "none"
    /\ \E c \in Commitments, d \in 1..MaxDays, consent \in BOOLEAN :
        receipt' = create_receipt(c, d, consent, clockMs, "0xAAA")
    /\ receiptRes' = "owned"
    /\ tx' = [NoTx EXCEPT !.fn = "create_and_transfer_receipt", !.at = clockMs]
    /\ UNCHANGED <<clockMs, registry, accepted>>
    /\ UNCHANGED <<merkleVars, sealVars, ledgerVars, proverVars>>

\* the clock of the chain moves forward, to just before, at or after the
\* expiry of the receipt
ChainTick ==
    /\ receiptRes = "owned"
    /\ \E t \in {receipt.expires_at - 1, receipt.expires_at, receipt.expires_at + 1} :
        /\ t > clockMs
        /\ clockMs' = t
    /\ UNCHANGED <<receipt, receiptRes, registry, accepted, tx>>
    /\ UNCHANGED <<merkleVars, sealVars, ledgerVars, proverVars>>

\* mark_verified is public: a transaction may call it on a receipt it owns
MarkVerifiedCall ==
    /\ receiptRes = "owned"
    /\ receipt.verification_count < MaxVerifications
    /\ LET marked == mark_verified(receipt, clockMs)
       IN  Commit("mark_verified", NoArgs,
                  [abort |-> marked.abort, receipt |-> marked.receipt,
                   registry |-> registry, success |-> FALSE])

VerifyStorageProofCall ==
    /\ receiptRes = "owned"
    /\ registry.total_verifications < MaxVerifications
    /\ \E args \in ProofArgs :
        Commit("verify_storage_proof", args,
               verify_storage_proof(registry, receipt, args.proof_a, args.proof_b,
                                    args.proof_c, args.public_signals, clockMs))

VerifyRetentionProofCall ==
    /\ receiptRes = "owned"
    /\ registry.total_verifications < MaxVerifications
    /\ \E args \in ProofArgs :
        Commit("verify_retention_proof", args,
               verify_retention_proof(registry, receipt, args.proof_a, args.proof_b,
                                      args.proof_c, args.public_signals, clockMs))

VerifyConsentProofCall ==
    /\ receiptRes = "owned"
    /\ registry.total_verifications < MaxVerifications
    /\ \E args \in ProofArgs :
        Commit("verify_consent_proof", args,
               verify_consent_proof(registry, receipt, args.proof_a, args.proof_b,
                                    args.proof_c, args.public_signals, clockMs))

\* the sender is 0xAAA; the auditor address is an argument of the call
VerifyThresholdProofCall ==
    /\ receiptRes = "owned"
    /\ registry.total_verifications < MaxVerifications
    /\ \E args \in ProofArgs, auditor_address \in Addresses :
        Commit("verify_threshold_proof", args,
               verify_threshold_proof(registry, receipt, args.proof_a, args.proof_b,
                                      args.proof_c, args.public_signals,
                                      auditor_address, clockMs, "0xAAA"))

DeleteExpiredReceiptCall ==
    /\ receiptRes = "owned"
    /\ LET res == delete_expired_receipt(receipt, clockMs)
       IN  /\ receiptRes' = IF res.deleted THEN "deleted" ELSE receiptRes
           /\ tx' = [fn |-> "delete_expired_receipt", abort |-> res.abort, at |-> clockMs,
                     args |-> NoArgs, success |-> FALSE,
                     before |-> [receipt |-> receipt, registry |-> registry,
                                 accepted |-> accepted]]
    /\ UNCHANGED <<clockMs, receipt, registry, accepted>>
    /\ UNCHANGED <<merkleVars, sealVars, ledgerVars, proverVars>>

ChainNext ==
    \/ CreateReceiptCall
    \/ ChainTick
    \/ MarkVerifiedCall
    \/ VerifyStorageProofCall
    \/ VerifyRetentionProofCall
    \/ VerifyConsentProofCall
    \/ VerifyThresholdProofCall
    \/ DeleteExpiredReceiptCall

ChainSpec == ChainInit /\ [][ChainNext]_vars

-----------------------------------------------------------------------------
(* The compliance ledger as a state machine *)

MaxRecords == 3     \* records written to the ledger in a run

ReceiptIds == {"0xR1", "0xR2"}

ComplianceTypes == {"retention", "consent"}

LedgerInit ==
    /\ ledger = NewLedger
    /\ issuedRecords = <<>>
    /\ MerkleIdle
    /\ SealIdle
    /\ ChainIdle
    /\ ProverIdle

\* record_compliance called by another function of the transaction, which
\* keeps the record
RecordComplianceCall ==
    /\ ledger.total_records < MaxRecords
    /\ \E receipt_id \in ReceiptIds, compliance_type \in ComplianceTypes :
        LET res == record_compliance(ledger, receipt_id, compliance_type, clockMs, "0xAAA")
        IN  /\ ledger' = res.ledger
            /\ issuedRecords' = Append(issuedRecords,
                                       [record |-> res.record, transferred |-> FALSE])
    /\ UNCHANGED <<merkleVars, sealVars, chainVars, proverVars>>

RecordAndTransferCall ==
    /\ ledger.total_records < MaxRecords
    /\ \E receipt_id \in ReceiptIds, compliance_type \in ComplianceTypes :
        LET res == record_and_transfer(ledger, receipt_id, compliance_type, clockMs, "0xAAA")
        IN  /\ ledger' = res.ledger
            /\ issuedRecords' = Append(issuedRecords,
                                       [record |-> res.record, transferred |-> TRUE])
    /\ UNCHANGED <<merkleVars, sealVars, chainVars, proverVars>>

LedgerNext ==
    \/ RecordComplianceCall
    \/ RecordAndTransferCall

LedgerSpec == LedgerInit /\ [][LedgerNext]_vars

-----------------------------------------------------------------------------
(* verifyProof of lib/zk-prover as a state machine *)

\* pi_a, pi_b or pi_c of a proof: missing, one entry short, or three entries
PiArrays == {Undefined, ArrayOf(<<"1", "2">>), ArrayOf(<<"1", "2", "1">>)}

BundleProofs ==
    {NoBundleProof} \cup [defined : {TRUE}, pi_a : PiArrays, pi_b : PiArrays, pi_c : PiArrays]

Bundles ==
    [proof : BundleProofs,
     publicSignals : {Undefined, ArrayOf(<<>>), ArrayOf(<<"7">>)},
     commitment : {"", "0xc0"},
     proofType : {"storage", "retention", "consent", "threshold"}]

FetchOutcomes == {"ok", "notOk", "rejected", "badJson"}

SnarkOutcomes == {"true", "false", "throws"}

ProverInit ==
    /\ bundle \in Bundles
    /\ fetched = "none"
    /\ snark = "none"
    /\ zkRes = "none"
    /\ MerkleIdle
    /\ SealIdle
    /\ ChainIdle
    /\ LedgerIdle

ZkVerifyProofCall ==
    /\ zkRes = "none"
    /\ \E fetchOutcome \in FetchOutcomes, snarkOutcome \in SnarkOutcomes :
        LET res == zkVerifyProof(bundle, fetchOutcome, snarkOutcome)
        IN  /\ zkRes' = res.res
            /\ fetched' = res.fetched
            /\ snark' = res.snark
    /\ UNCHANGED bundle
    /\ UNCHANGED <<merkleVars, sealVars, chainVars, ledgerVars>>

ProverNext == ZkVerifyProofCall

ProverSpec == ProverInit /\ [][ProverNext]_vars

-----------------------------------------------------------------------------
(* Properties of the commitment side, checked under MerkleSpec *)

RawChunks == [i \in 1..Len(chunks) |-> chunks[i].raw]

\* C1: for every input of createCommitment, the empty one included, the
\* proof generateProof returns for each leaf index 0 <= i < len(tree.leaves)
\* is accepted by verifyProof against the root of the tree.
C1_ProofRoundTrip ==
    (entry = "createCommitment" /\ treeRes # "none") =>
        /\ treeRes = "ok"
        /\ \A i \in 0..(Len(tree.leaves) - 1) :
            LET r == generateProof(tree, i)
            IN  r.res = "ok" /\ verifyProof(tree.root, r.proof)
        /\ (verifyRes # "none" => verifyRes = "true")

C1_Witness ==
    /\ entry = "createCommitment"
    /\ Len(tree.leaves) = 5
    /\ tree.depth = 3
    /\ reqIndex = 4
    /\ proofRes = "ok"
    /\ verifyRes = "true"

\* C7 as stated: for a 3-chunk input the leaf level has 4 entries, entry 3
\* a copy of leaf 2, and generateProof returns a proof for index 2 and for
\* index 3, both accepted against the root.
C7_PaddedProofProduced ==
    (treeRes = "ok" /\ Len(tree.leaves) = 3) =>
        /\ Len(tree.nodes[1]) = 4
        /\ tree.nodes[1][4] = tree.leaves[3]
        /\ (proofRes # "none" /\ reqIndex \in {2, 3}) =>
                /\ proofRes = "ok"
                /\ (verifyRes # "none" => verifyRes = "true")

\* C7 amended: for a 3-chunk input the leaf level has 4 entries, entry 3 a
\* copy of leaf 2; generateProof returns a proof for index 2, accepted
\* against the root, and fails with the out-of-bounds error for index 3.
C7_ThreeChunks ==
    (treeRes = "ok" /\ Len(tree.leaves) = 3) =>
        /\ Len(tree.nodes[1]) = 4
        /\ tree.nodes[1][4] = tree.leaves[3]
        /\ tree.nodes[1][3] = tree.leaves[3]
        /\ LET r == generateProof(tree, 2)
           IN  r.res = "ok" /\ verifyProof(tree.root, r.proof)
        /\ (proofRes # "none" /\ reqIndex = 2) =>
                /\ proofRes = "ok"
                /\ (verifyRes # "none" => verifyRes = "true")
        /\ (proofRes # "none" /\ reqIndex = 3) => proofRes = "OutOfBounds"

C7_Witness ==
    /\ treeRes = "ok"
    /\ Len(tree.leaves) = 3
    /\ tree.leaves[1] # tree.leaves[3]
    /\ reqIndex = 3
    /\ proofRes = "OutOfBounds"

\* C8: the chunk list createCommitment builds is never empty, its chunks
\* joined in order are the input, every chunk has at most 16384 bytes and
\* every chunk but the last exactly 16384; for the empty input it is one
\* empty chunk, and createCommitment does not fail.
C8_Chunker ==
    (entry = "createCommitment" /\ treeRes # "none") =>
        /\ Len(chunks) >= 1
        /\ ConcatAll(RawChunks) = data
        /\ \A i \in 1..Len(chunks) : ByteLength(RawChunks[i]) <= 16384
        /\ \A i \in 1..(Len(chunks) - 1) : ByteLength(RawChunks[i]) = 16384
        /\ (data = <<>> => RawChunks = <<<<>>>>)
        /\ treeRes = "ok"
        /\ Len(tree.leaves) = Len(chunks)

C8_Witness ==
    /\ entry = "createCommitment"
    /\ treeRes = "ok"
    /\ Len(chunks) = 3
    /\ ByteLength(RawChunks[3]) = 1
    /\ Len(RawChunks[2]) = 2

\* C9: createMerkleTree fails with the empty-input error, and returns no
\* tree, for the empty chunk list; for every other list it returns a tree.
C9_EmptyChunks ==
    (entry = "createMerkleTree" /\ treeRes # "none") =>
        /\ (chunks = <<>>) <=> (treeRes = "EmptyChunks")
        /\ (chunks = <<>>) => tree = NoTree
        /\ (chunks # <<>>) =>
                /\ treeRes = "ok"
                /\ Len(tree.leaves) = Len(chunks)
                /\ tree.nodes[tree.depth + 1] = <<tree.root>>

C9_Witness ==
    /\ entry = "createMerkleTree"
    /\ chunks = <<>>
    /\ treeRes = "EmptyChunks"

\* C10: generateProof fails with the out-of-bounds error exactly when
\* leafIndex < 0 or leafIndex >= len(tree.leaves); otherwise the proof's
\* leaf is tree.leaves[leafIndex] and its leafIndex the requested index.
C10_IndexBounds ==
    (proofRes # "none") =>
        /\ (proofRes = "OutOfBounds") <=> (reqIndex < 0 \/ reqIndex >= Len(tree.leaves))
        /\ (proofRes = "ok") =>
                /\ proof.leaf = tree.leaves[reqIndex + 1]
                /\ proof.leafIndex = reqIndex

C10_Witness ==
    /\ treeRes = "ok"
    /\ Len(tree.leaves) < Len(tree.nodes[1])
    /\ reqIndex = Len(tree.leaves)
    /\ proofRes = "OutOfBounds"

IsPowerOfTwo(n) == \E e \in 0..10 : n = 2 ^ e

\* the smallest power of two that is at least n
PowerOfTwoAbove(n) ==
    CHOOSE m \in {2 ^ e : e \in 0..10} :
        m >= n /\ \A e \in 0..10 : 2 ^ e >= n => m <= 2 ^ e

\* C11: verifyProof(tree.root, p) returns true only for a proof p whose leaf
\* is the digest of one of the chunks the tree was built from; a proof under
\* any other digest, an internal node with a shorter sibling list included,
\* is rejected.
C11_InclusionSoundness ==
    /\ (claimedRes = "true") => \E i \in 1..Len(chunks) : claimed.leaf = sha256(chunks[i])
    /\ (verifyRes = "true") => \E i \in 1..Len(chunks) : proof.leaf = sha256(chunks[i])

\* C12: hashPair(a, b) = hashPair(b, a) for all digests a and b, here those
\* of a tree just built and one foreign to it: the hashed text is the lower
\* digest followed by the higher one.
C12_PairCommutes ==
    (treeRes = "ok" /\ proofRes = "none" /\ claimedRes = "none" /\ again.res = "none") =>
        \A a, b \in NodeSet(tree) \cup {ForeignDigest} :
            /\ hashPair(a, b) = hashPair(b, a)
            /\ hashPair(a, b) \in {sha256(TextEncode(<<a, b>>)), sha256(TextEncode(<<b, a>>))}

C12_Witness ==
    /\ treeRes = "ok"
    /\ proofRes = "none"
    /\ claimedRes = "none"
    /\ again.res = "none"
    /\ tree.depth = 1
    /\ tree.nodes[1][1] # tree.nodes[1][2]
    /\ tree.nodes[2][1] = sha256(TextEncode(<<tree.nodes[1][2], tree.nodes[1][1]>>))

C14_CommitmentWithMetadata ==
    (committedRes # "none") =>
        /\ committedRes = "ok"
        /\ LET order == [k \in 1..Len(SplitChunks(data)) |-> k]
           IN  committed.commitment =
                   createMerkleTree(MessagesOf(SplitChunks(data)), order).tree.root
        /\ (ByteLength(data) <= 16384) =>
                committed.commitment = sha256(RawMessage(data))
        /\ committed.metadataHash = sha256(RawMessage(RunsOf(JsonStringifyObject(metadata))))
        /\ (metadata = MetadataOf(30, TRUE, 1)) =>
                committed.metadataHash = sha256(RawMessage(RunsOf(
                    <<123, 34, 114, 101, 116, 101, 110, 116, 105, 111, 110, 68, 97,
                      121, 115, 34, 58, 51, 48, 44, 34, 99, 111, 110, 115, 101, 110,
                      116, 83, 105, 103, 110, 101, 100, 34, 58, 116, 114, 117, 101,
                      44, 34, 116, 105, 109, 101, 115, 116, 97, 109, 112, 34, 58, 49,
                      125>>)))
        /\ committed.combinedCommitment = hashPair(committed.commitment, committed.metadataHash)
        /\ committed.combinedCommitment = hashPair(committed.metadataHash, committed.commitment)
        /\ committed.combinedCommitment \in
                {sha256(TextEncode(<<committed.commitment, committed.metadataHash>>)),
                 sha256(TextEncode(<<committed.metadataHash, committed.commitment>>))}

C14_Witness ==
    /\ committedRes = "ok"
    /\ metadata = MetadataOf(30, TRUE, 1)
    /\ ByteLength(data) = 2 * 16384 + 1
    /\ committed.commitment # committed.metadataHash
    /\ committed.combinedCommitment # committed.commitment

\* C17: in every tree createMerkleTree returns, len(nodes[0]) is a power of
\* two, len(nodes) = depth + 1, every level k < depth has even length, level
\* k + 1 has half as many entries and entry i of it is hashPair of entries 2i
\* and 2i + 1 of level k, and nodes[depth] is [root].
C17_LevelInvariant ==
    (treeRes = "ok") =>
        /\ Len(tree.nodes[1]) >= 1
        /\ IsPowerOfTwo(Len(tree.nodes[1]))
        /\ Len(tree.nodes) = tree.depth + 1
        /\ \A k \in 1..tree.depth :
            /\ Len(tree.nodes[k]) % 2 = 0
            /\ 2 * Len(tree.nodes[k + 1]) = Len(tree.nodes[k])
            /\ \A i \in 1..Len(tree.nodes[k + 1]) :
                tree.nodes[k + 1][i] = hashPair(tree.nodes[k][2 * i - 1], tree.nodes[k][2 * i])
        /\ tree.nodes[tree.depth + 1] = <<tree.root>>

C17_Witness ==
    /\ treeRes = "ok"
    /\ tree.depth = 3
    /\ Len(tree.nodes[1]) = 8
    /\ Len(tree.nodes[3]) = 2
    /\ tree.nodes[3][1] # tree.nodes[3][2]

\* C18: for n >= 1 chunks, tree.leaves has n entries, leaves[i] the digest of
\* chunk i; nodes[0] is tree.leaves followed by copies of leaves[n - 1] up to
\* the smallest power of two >= n; for n = 1 nothing is added, depth is 0
\* and root is the one leaf digest.
C18_Padding ==
    (treeRes = "ok") =>
        LET n == Len(chunks)
            m == PowerOfTwoAbove(n)
        IN  /\ n >= 1
            /\ Len(tree.leaves) = n
            /\ \A i \in 1..n : tree.leaves[i] = sha256(chunks[i])
            /\ Len(tree.nodes[1]) = m
            /\ \A i \in 1..n : tree.nodes[1][i] = tree.leaves[i]
            /\ \A i \in (n + 1)..m : tree.nodes[1][i] = tree.leaves[n]
            /\ (n = 1) =>
                    /\ tree.nodes[1] = tree.leaves
                    /\ tree.depth = 0
                    /\ tree.root = sha256(chunks[1])

C18_Witness ==
    /\ treeRes = "ok"
    /\ Len(chunks) = 5
    /\ Len(tree.nodes[1]) = 8
    /\ tree.leaves[5] # tree.leaves[4]
    /\ tree.nodes[1][8] = tree.leaves[5]

\* sequences of 0/1 flags for up to n siblings
FlagSeqs(n) == UNION {[1..m -> {0, 1}] : m \in 0..n}

\* a proof is verified the same way whatever its pathIndices and leafIndex
FlagsIrrelevant(p) ==
    \A root \in {tree.root, p.leaf, ForeignDigest} :
        /\ \A flags \in FlagSeqs(Len(p.siblings)) :
            verifyProof(root, [p EXCEPT !.pathIndices = flags]) = verifyProof(root, p)
        /\ \A i \in {-1, 0, p.leafIndex + 1} :
            verifyProof(root, [p EXCEPT !.leafIndex = i]) = verifyProof(root, p)

\* C19: verifyProof(root, p) is verifyProof(root, p') for every p' that
\* differs from p in pathIndices (any sequence of 0/1 flags) or in leafIndex
\* only, for the proofs generateProof returned and those a caller built.
C19_PathIndicesIrrelevant ==
    /\ (verifyRes # "none") => FlagsIrrelevant(proof)
    /\ (claimedRes # "none") => FlagsIrrelevant(claimed)

C19_Witness ==
    /\ verifyRes = "true"
    /\ tree.depth = 2
    /\ proof.pathIndices = <<0, 1>>
    /\ proof.siblings[1] # proof.leaf
    /\ verifyProof(tree.root, [proof EXCEPT !.pathIndices = <<1, 0>>])

\* C20: for every valid leaf index generateProof skips no level: the proof
\* has depth siblings and depth flags, siblings[k] is the other entry of the
\* pair that holds the current index at level k, and pathIndices[k] is 0 when
\* that index is odd and 1 when it is even.
C20_NoLevelSkipped ==
    (proofRes = "ok") =>
        /\ Len(proof.siblings) = tree.depth
        /\ Len(proof.pathIndices) = tree.depth
        /\ \A k \in 0..(tree.depth - 1) :
            LET idx == reqIndex \div (2 ^ k)
                other == IF idx % 2 = 1 THEN idx - 1 ELSE idx + 1
            IN  /\ other < Len(tree.nodes[k + 1])
                /\ proof.siblings[k + 1] = tree.nodes[k + 1][other + 1]
                /\ proof.pathIndices[k + 1] = (IF idx % 2 = 1 THEN 0 ELSE 1)

C20_Witness ==
    /\ proofRes = "ok"
    /\ verifyRes = "none"
    /\ tree.depth = 3
    /\ Len(tree.leaves) = 5
    /\ reqIndex = 4
    /\ proof.pathIndices = <<1, 1, 0>>
    /\ proof.siblings[1] = tree.leaves[5]

\* C24: for chunks of a length that is not a power of two, createMerkleTree
\* returns the same root for the chunks and for the chunks followed by one
\* more copy of the last of them.
C24_PaddingCollision ==
    (longer.res # "none" /\ ~IsPowerOfTwo(Len(chunks))) =>
        /\ longer.res = "ok"
        /\ Len(longer.tree.leaves) = Len(tree.leaves) + 1
        /\ longer.tree.root = tree.root

C24_Witness ==
    /\ longer.res = "ok"
    /\ Len(chunks) = 3
    /\ chunks[1] # chunks[2]
    /\ chunks[2] # chunks[3]
    /\ chunks[1] # chunks[3]
    /\ longer.tree.root = tree.root

-----------------------------------------------------------------------------
(* Properties of the envelope side, checked under SealSpec *)

\* C2: a decrypt call at now = policy.expiresAt is refused as expired, and a
\* call at now = policy.expiresAt - 1 under a policy without allowlist is
\* not refused by the gate.
C2_ExpiryBoundary ==
    (decryptRes # "none") =>
        /\ (now = policy.expiresAt) => decryptRes = "PolicyExpired"
        /\ (now = policy.expiresAt - 1 /\ ~policy.allowlist.defined) =>
                decryptRes \notin {"PolicyExpired", "AccessDenied"}

\* C3: under a policy that has not expired, decrypt fails with the
\* access-denied error exactly when the allowlist is present, non-empty and
\* does not hold the requester.
C3_AllowlistGate ==
    (decryptRes # "none" /\ decryptRes # "PolicyExpired") =>
        ((decryptRes = "AccessDenied") <=>
            /\ policy.allowlist.defined
            /\ Len(policy.allowlist.items) > 0
            /\ ~Includes(policy.allowlist.items, requester))

\* C4: when one bit of the ciphertext part of a serialized envelope is
\* inverted, deserializeEnvelope still returns an envelope and decrypt
\* returns no plaintext: past the policy gate it fails in the cipher.
C4_TamperDetected ==
    (wireRes = "tampered" /\ decodedRes # "none") =>
        /\ decodedRes = "ok"
        /\ decoded.ciphertext # envelope.ciphertext
        /\ (decryptRes # "none") =>
                /\ decryptRes # "ok"
                /\ decrypted = <<>>
                /\ decryptRes \notin {"PolicyExpired", "AccessDenied"}
                       => decryptRes = "OperationError"
                /\ (now < policy.expiresAt /\ ~policy.allowlist.defined)
                       => decryptRes = "OperationError"

C4_Witness ==
    /\ wireRes = "tampered"
    /\ decodedRes = "ok"
    /\ Len(plaintext) = 2
    /\ decoded.ciphertext[2] # envelope.ciphertext[2]
    /\ now < policy.expiresAt
    /\ ~policy.allowlist.defined
    /\ decryptRes = "OperationError"

\* C5: deserializeEnvelope(serializeEnvelope(e)) is e, field by field, for
\* every envelope e; the bytes are a 4-byte header length, a JSON header of
\* that length, then the ciphertext.
C5_EnvelopeRoundTrip ==
    (wireRes = "serialized") =>
        /\ LET n == Len(wire) - 4 - Len(envelope.ciphertext)
           IN  /\ n >= 0
               /\ Uint32Of(SubSeq(wire, 1, 4)) = n
               /\ JsonParse(SubSeq(wire, 5, 4 + n)).res = "ok"
               /\ SubSeq(wire, 5 + n, Len(wire)) = envelope.ciphertext
        /\ (decodedRes # "none") =>
                /\ decodedRes = "ok"
                /\ decoded.policyId = envelope.policyId
                /\ decoded.nonce = envelope.nonce
                /\ decoded.encryptedKey = envelope.encryptedKey
                /\ decoded.metadata = envelope.metadata
                /\ decoded.ciphertext = envelope.ciphertext

C5_Witness ==
    /\ envRes = "constructed"
    /\ wireRes = "serialized"
    /\ decodedRes = "ok"
    /\ envelope.ciphertext = <<>>
    /\ envelope.policyId = <<97, 34, 92>>
    /\ envelope.nonce = <<0, 255>>

\* C6: an envelope returned by encryptWithSeal, serialized and read back,
\* decrypts to exactly the plaintext whenever the policy gate lets the
\* requester through.
C6_EncryptDecryptRoundTrip ==
    (envRes = "encrypted" /\ wireRes = "serialized" /\ decryptRes # "none") =>
        /\ decryptRes \in {"ok", "PolicyExpired", "AccessDenied"}
        /\ (decryptRes = "ok") => decrypted = plaintext
        /\ (decryptRes # "ok") => decrypted = <<>>
        /\ (now < policy.expiresAt /\ ~policy.allowlist.defined) => decryptRes = "ok"

C6_Witness ==
    /\ envRes = "encrypted"
    /\ wireRes = "serialized"
    /\ Len(plaintext) = 2
    /\ policy.allowlist.defined
    /\ requester = "0xAAA"
    /\ decryptRes = "ok"
    /\ decrypted = plaintext

\* C15: deserializeEnvelope fails, and returns no envelope, whenever the
\* header length the first 4 bytes declare is more than the bytes that
\* follow them, and whenever the header bytes are not a JSON text.
C15_MalformedEnvelope ==
    (wireRes = "relengthed" /\ decodedRes # "none") =>
        LET declared == Uint32Of(SubSeq(wire, 1, 4))
        IN  (\/ declared > Len(wire) - 4
             \/ JsonParse(SliceBytes(wire, 4, 4 + declared)).res # "ok") =>
                    /\ decodedRes = "SyntaxError"
                    /\ decoded = NoEnvelope

\* C16: decryptWithSeal tests the expiry, then the allowlist, before it
\* imports the key or runs the cipher: past the expiry the call fails as
\* expired whoever asks, and before it a requester outside a non-empty
\* allowlist is denied whatever ciphertext, nonce and key the envelope holds.
C16_CheckOrder ==
    (decryptRes # "none") =>
        /\ (now > policy.expiresAt) =>
                /\ decryptRes = "PolicyExpired"
                /\ decrypted = <<>>
        /\ (/\ now < policy.expiresAt
            /\ policy.allowlist.defined
            /\ Len(policy.allowlist.items) > 0
            /\ ~Includes(policy.allowlist.items, requester)) =>
                /\ decryptRes = "AccessDenied"
                /\ decrypted = <<>>

C16_Witness ==
    /\ decodedRes = "ok"
    /\ now > policy.expiresAt
    /\ policy.allowlist = ArrayOf(<<"0xAAA">>)
    /\ requester = "0xBBB"
    /\ ~ImportKeyOk(decoded.encryptedKey)
    /\ decryptRes = "PolicyExpired"

\* C21: once decryptWithSeal has refused a policy as expired, the clock is
\* past the expiry of that policy for good, and every later call against
\* it is refused as expired as well, whoever asks and whatever envelope is
\* handed in.
C21_ExpiryIsFinal ==
    (expiredAt # -1) =>
        /\ now >= expiredAt
        /\ now > policy.expiresAt
        /\ (decryptRes # "none") => (decryptRes = "PolicyExpired" /\ decrypted = <<>>)
        /\ \A addr \in Addresses, env \in ConstructedEnvelopes \cup {decoded} :
            decryptWithSeal(env, policy, addr, now).res = "PolicyExpired"

C21_Witness ==
    /\ decodedRes = "ok"
    /\ envRes = "encrypted"
    /\ expiredAt = policy.expiresAt + 1
    /\ now = policy.expiresAt + 2
    /\ requester = "0xBBB"
    /\ decryptRes = "PolicyExpired"

C23_FourOutcomes ==
    (decryptRes # "none") =>
        /\ decryptRes \in {"ok", "PolicyExpired", "AccessDenied", "OperationError"}
        /\ (decryptRes # "ok") => (decrypted = <<>>)

\* C25: decryptWithSeal returns the plaintext only under the policy the
\* envelope names: policy.id is envelope.policyId.
C25_PolicyBinding ==
    (decryptRes = "ok") => (policy.id = decoded.policyId)

-----------------------------------------------------------------------------
(* Properties of the Move package, checked under ChainSpec and LedgerSpec *)

\* whether the verify call of tx passed every test before the marking of
\* the receipt
WouldMark ==
    LET args == tx.args
        valid == Len(args.proof_a) > 0 /\ Len(args.proof_b) > 0 /\ Len(args.proof_c) > 0
    IN  CASE tx.fn = "verify_storage_proof" ->
                /\ valid
                /\ \/ args.public_signals = <<>>
                   \/ args.public_signals[1] = tx.before.receipt.commitment
          [] tx.fn = "verify_retention_proof" -> valid
          [] tx.fn = "verify_consent_proof" -> valid /\ tx.before.receipt.consent_signed
          [] tx.fn = "verify_threshold_proof" -> valid /\ tx.abort # "EUnauthorized"
          [] OTHER -> FALSE

\* C26: mark_verified succeeds exactly while the clock is before expires_at
\* and delete_expired_receipt exactly from expires_at on, so that one of the
\* two and not the other succeeds at any time; a verify call that would mark
\* a receipt that has expired aborts, and the verified flag and the
\* verification_count of the receipt and total_verifications of the
\* registry are what they were.
C26_ExpiryGate ==
    /\ (tx.fn = "mark_verified") =>
            ((tx.abort = "none") <=> (tx.at < tx.before.receipt.expires_at))
    /\ (tx.fn = "delete_expired_receipt") =>
            ((tx.abort = "none") <=> (tx.at >= tx.before.receipt.expires_at))
    /\ (receiptRes = "owned") =>
            ((mark_verified(receipt, clockMs).abort = "none")
                # (delete_expired_receipt(receipt, clockMs).abort = "none"))
    /\ (tx.fn \in VerifyFns /\ tx.at >= tx.before.receipt.expires_at) =>
            /\ ~tx.success
            /\ receipt.verified = tx.before.receipt.verified
            /\ receipt.verification_count = tx.before.receipt.verification_count
            /\ WouldMark =>
                    /\ tx.abort = "EReceiptExpired"
                    /\ receipt = tx.before.receipt
                    /\ registry = tx.before.registry

C26_Witness ==
    /\ receiptRes = "owned"
    /\ tx.fn = "verify_consent_proof"
    /\ tx.at = receipt.expires_at
    /\ tx.abort = "EReceiptExpired"
    /\ receipt.verified
    /\ registry.total_verifications = 1

\* C27: a verify_storage_proof call that marks the receipt verified has the
\* commitment of the receipt as its first public signal.
C27_CommitmentBound ==
    (tx.fn = "verify_storage_proof" /\ tx.abort = "none" /\ tx.success) =>
        /\ Len(tx.args.public_signals) > 0
        /\ tx.args.public_signals[1] = tx.before.receipt.commitment

\* C28: a verify call with the proof hash of a proof that an earlier verify
\* call accepted is rejected and leaves the verification_count as it was.
C28_ReplayRejected ==
    (/\ tx.fn \in VerifyFns
     /\ compute_proof_hash(tx.args.proof_a, tx.args.proof_b, tx.args.proof_c)
            \in tx.before.accepted) =>
        /\ tx.abort # "none"
        /\ receipt.verification_count = tx.before.receipt.verification_count

\* the places of record id n in the index vectors of the ledger
PlacesOf(n) ==
    {<<k, i>> \in (DOMAIN ledger.records_by_receipt) \X (1..ledger.total_records) :
        /\ i <= Len(ledger.records_by_receipt[k])
        /\ ledger.records_by_receipt[k][i] = n}

RECURSIVE SumOfCounts(_)
SumOfCounts(ids) ==
    IF ids = {} THEN 0
    ELSE LET k == CHOOSE x \in ids : TRUE
         IN  get_record_count(ledger, k) + SumOfCounts(ids \ {k})

\* C29: next_record_id is total_records + 1; the record ids are handed out
\* in increasing order, none twice; every record id stands at one place of
\* the index, in the vector of its receipt_id, and every vector is in
\* increasing order; the record counts of all receipts add up to
\* total_records.
C29_LedgerInvariant ==
    /\ ledger.next_record_id = total_records(ledger) + 1
    /\ Len(issuedRecords) = total_records(ledger)
    /\ \A i, j \in 1..Len(issuedRecords) :
        (i < j) => (issuedRecords[i].record.record_id < issuedRecords[j].record.record_id)
    /\ \A i \in 1..Len(issuedRecords) :
        LET rec == issuedRecords[i].record
        IN  /\ Cardinality(PlacesOf(rec.record_id)) = 1
            /\ \A place \in PlacesOf(rec.record_id) : place[1] = rec.receipt_id
    /\ \A k \in DOMAIN ledger.records_by_receipt :
        LET ids == get_record_ids(ledger, k)
        IN  /\ \A i \in 1..(Len(ids) - 1) : ids[i] < ids[i + 1]
            /\ \A i \in 1..Len(ids) :
                \E j \in 1..Len(issuedRecords) : issuedRecords[j].record.record_id = ids[i]
    /\ SumOfCounts(ReceiptIds) = total_records(ledger)

C29_Witness ==
    /\ total_records(ledger) = MaxRecords
    /\ get_record_count(ledger, "0xR1") = 2
    /\ get_record_count(ledger, "0xR2") = 1
    /\ get_record_ids(ledger, "0xR1") = <<1, 3>>
    /\ issuedRecords[2].transferred
    /\ ~issuedRecords[3].transferred

-----------------------------------------------------------------------------
(* Property of lib/zk-prover, checked under ProverSpec *)

\* a bundle without proof, public signals or commitment, or with a pi_a,
\* pi_b or pi_c that is missing or not of three entries
Incomplete(b) ==
    \/ ~b.proof.defined
    \/ ~b.publicSignals.defined
    \/ b.commitment = ""
    \/ \E pi \in {b.proof.pi_a, b.proof.pi_b, b.proof.pi_c} :
        ~pi.defined \/ Len(pi.items) # 3

\* C30: verifyProof returns true only when snarkjs.groth16.verify returned
\* true, and returns false when the bundle is incomplete, when the
\* verification key could not be loaded and when the verification threw.
C30_VerifyProofSound ==
    (zkRes # "none") =>
        /\ (zkRes = "true") => (snark = "true")
        /\ (\/ Incomplete(bundle)
            \/ fetched \in {"notOk", "rejected", "badJson"}
            \/ snark = "throws") => (zkRes = "false")

====
